---- MODULE Spec2Model ----
(***************************************************************************)
(* A model of mapbox/fuzzy-phrase: the FuzzyMap (src/fuzzy/map.rs), the    *)
(* three-byte codec (src/phrase/util.rs), the PhraseSet                    *)
(* (src/phrase/mod.rs) and the InvertedIndex (src/inverted/mod.rs).        *)
(*                                                                         *)
(* Strings are sequences of Unicode scalar values (drawn from Chars), byte *)
(* strings are sequences of numbers in 0..255.  The fst crate is modelled  *)
(* by what it stores: an ordered map (FuzzyMap) or an ordered set          *)
(* (PhraseSet) of keys, walked node by node; a node is named by the byte   *)
(* path that leads to it.                                                  *)
(***************************************************************************)
EXTENDS Integers, Sequences, FiniteSets, TLC

\* ------------------------------------------------------------------ bounds
\* Longest word / query, in scalar values.
MaxWordLen == 3
\* Most words handed to one FuzzyMap build.
MaxWords == 2

\* The scalar values words are written in.
Chars == {1, 2, 3}
\* The edit distances the index is specified for.
Distances == {1, 2}

\* src/fuzzy/map.rs:18   static BIG_NUMBER: usize = 1 << 30;
BIG_NUMBER == 1073741824

\* ------------------------------------------------------- sequences, orders
Min2(a, b) == IF a <= b THEN a ELSE b

\* All sequences over S of length 0..n.
SeqsUpTo(S, n) == UNION {[1..k -> S] : k \in 0..n}

AllStrings == SeqsUpTo(Chars, MaxWordLen)

\* Lexicographic order of two sequences of numbers: Rust's Ord on Vec<u8>,
\* [u8] and String (UTF-8 keeps scalar-value order).
RECURSIVE LexLess(_, _)
LexLess(a, b) ==
    IF b = <<>> THEN FALSE
    ELSE IF a = <<>> THEN TRUE
    ELSE IF Head(a) # Head(b) THEN Head(a) < Head(b)
    ELSE LexLess(Tail(a), Tail(b))

LexLeq(a, b) == a = b \/ LexLess(a, b)

\* Ord on (String, usize): the key first, then the id.
PairLess(x, y) == LexLess(x[1], y[1]) \/ (x[1] = y[1] /\ x[2] < y[2])

\* The elements of a finite set of sequences, ascending.
RECURSIVE AscSeq(_)
AscSeq(S) ==
    IF S = {} THEN <<>>
    ELSE LET m == CHOOSE x \in S : \A y \in S : LexLeq(x, y)
         IN <<m>> \o AscSeq(S \ {m})

RECURSIVE Reverse(_)
Reverse(s) == IF s = <<>> THEN <<>> ELSE Reverse(Tail(s)) \o <<Head(s)>>

\* Vec::sort on Vec<(String, usize)>.
RECURSIVE InsertPair(_, _)
InsertPair(x, s) ==
    IF s = <<>> THEN <<x>>
    ELSE IF PairLess(Head(s), x) THEN <<Head(s)>> \o InsertPair(x, Tail(s))
    ELSE <<x>> \o s

RECURSIVE SortPairs(_)
SortPairs(s) == IF s = <<>> THEN <<>> ELSE InsertPair(Head(s), SortPairs(Tail(s)))

\* Vec::sort on Vec<usize>.
RECURSIVE InsertNat(_, _)
InsertNat(x, s) ==
    IF s = <<>> THEN <<x>>
    ELSE IF Head(s) < x THEN <<Head(s)>> \o InsertNat(x, Tail(s))
    ELSE <<x>> \o s

RECURSIVE SortNat(_)
SortNat(s) == IF s = <<>> THEN <<>> ELSE InsertNat(Head(s), SortNat(Tail(s)))

\* itertools dedup(): consecutive equal elements collapse into one.
DedupNone(s) == s

RECURSIVE Dedup(_)
Dedup(s) ==
    IF Len(s) <= 1 THEN s
    ELSE IF s[1] = s[2] THEN Dedup(Tail(s))
    ELSE <<s[1]>> \o Dedup(Tail(s))

\* ------------------------------------------------------ variant generator
\* word with its i-th scalar value deleted.
DeleteAt(w, i) == SubSeq(w, 1, i - 1) \o SubSeq(w, i + 1, Len(w))

Deletes1(S) == UNION {{DeleteAt(w, i) : i \in 1..Len(w)} : w \in S}

RECURSIVE DeletesUpTo(_, _)
DeletesUpTo(S, d) ==
    IF d = 0 THEN {}
    ELSE LET one == Deletes1(S) IN one \cup DeletesUpTo(one, d - 1)

\* get_variants(word, d): every string obtained from word by deleting at least
\* one and at most d scalar values.
VariantTable == [w \in AllStrings, d \in Distances |-> DeletesUpTo({w}, d)]

get_variants(word, d) == VariantTable[word, d]

\* The HashSet's iteration order is not specified: two of its orders.
VariantOrders(S) == {AscSeq(S), Reverse(AscSeq(S))}

\* ------------------------------------------------------------ strsim
\* strsim::damerau_levenshtein: the unrestricted Damerau-Levenshtein distance
\* (insertion, deletion, substitution, transposition of two scalar values that
\* are adjacent once the ones between them are deleted).
LastIn(s, upto, c) ==
    LET hits == {k \in 1..upto : s[k] = c}
    IN IF hits = {} THEN 0 ELSE CHOOSE k \in hits : \A h \in hits : h <= k

RECURSIVE DLrec(_, _, _, _)
DLrec(a, b, i, j) ==
    IF i = 0 THEN j
    ELSE IF j = 0 THEN i
    ELSE LET sub == DLrec(a, b, i - 1, j - 1) + (IF a[i] = b[j] THEN 0 ELSE 1)
             del == DLrec(a, b, i - 1, j) + 1
             ins == DLrec(a, b, i, j - 1) + 1
             k   == LastIn(a, i - 1, b[j])
             l   == LastIn(b, j - 1, a[i])
             best == Min2(sub, Min2(del, ins))
         IN IF k = 0 \/ l = 0 THEN best
            ELSE Min2(best, DLrec(a, b, k - 1, l - 1) + (i - k - 1) + 1 + (j - l - 1))

DamerauTable == [a \in AllStrings, b \in AllStrings |-> DLrec(a, b, Len(a), Len(b))]

damerau_levenshtein(a, b) == DamerauTable[a, b]

\* ------------------------------------------------------------------ state
VARIABLES
    \* FuzzyMapBuilder / FuzzyMap (src/fuzzy/map.rs)
    edit_distance,   \* FuzzyMapBuilder.edit_distance
    words,           \* the caller's word list: words[i + 1] is the word of id i
    word_variants,   \* FuzzyMapBuilder.word_variants: Vec<(String, usize)>
    id_builder,      \* FuzzyMapBuilder.id_builder, then FuzzyMap.id_list
    fst,             \* the keys handed to raw::Builder, in order, with outputs
    fuzzy_state,     \* "unbuilt" | "building" | "sealed" | "failed"
    looked           \* the last FuzzyMap::lookup call and what it returned

fuzzy_vars == <<edit_distance, words, word_variants, id_builder, fst, fuzzy_state, looked>>

VARIABLES
    \* PhraseSetBuilder / PhraseSet (src/phrase/mod.rs)
    set_keys,        \* the keys the fst::Set holds
    builder_last,    \* the last key the SetBuilder accepted
    inserted,        \* the phrases (word-id sequences) the builder accepted
    insert_err,      \* the last PhraseSetBuilder::insert returned Err
    phrase_state,    \* "building" | "sealed"
    answer           \* the last query on the sealed set and what it returned

phrase_vars == <<set_keys, builder_last, inserted, insert_err, phrase_state, answer>>

VARIABLES
    \* one use of the codec (src/phrase/util.rs)
    codec_id,        \* the word-id handed to three_byte_encode
    codec_bytes,     \* what three_byte_encode returned
    codec_back,      \* what three_byte_decode returned for codec_bytes
    codec_pc         \* "start" | "encoded" | "decoded"

codec_vars == <<codec_id, codec_bytes, codec_back, codec_pc>>

VARIABLES
    \* a FuzzyMapBuilder driven call by call, and its files
    entered,         \* the (key, id) pairs handed to FuzzyMapBuilder::insert
    disk             \* what lies at <stem>.fst and <stem>.msg

build_vars == <<entered, disk>>

VARIABLES
    \* InvertedIndexBuilder / InvertedIndex (src/inverted/mod.rs)
    index,           \* InvertedIndexBuilder.index: BTreeMap<u32, Vec<u32>>
    index_entries,   \* the entries vector of the written index
    inv_calls,       \* the (phrase_id, words) pairs handed to insert
    inv_state,       \* "building" | "sealed"
    inv_answer       \* the last query on the sealed index and what it returned

inverted_vars == <<index, index_entries, inv_calls, inv_state, inv_answer>>

VARIABLES
    \* the combination searches of the PhraseSet
    matched          \* the last combination search and what it returned

combine_vars == <<matched>>

VARIABLES
    \* one use of phrase_to_key and key_to_phrase (src/phrase/util.rs)
    key_phrase,      \* the word-ids handed to phrase_to_key
    key_given,       \* the key handed to key_to_phrase
    key_back,        \* what key_to_phrase did: it returned a phrase, or panicked
    key_pc           \* "start" | "keyed" | "given" | "decoded"

key_vars == <<key_phrase, key_given, key_back, key_pc>>

VARIABLES
    \* the readers that share the sealed indexes
    readers,         \* readers[r]: the query reader r has in progress, its result
    beyond           \* what lies past the entries vector in the index's buffer

reader_vars == <<readers, beyond>>

vars == <<fuzzy_vars, phrase_vars, codec_vars, build_vars, inverted_vars, combine_vars,
          key_vars, reader_vars>>

other_than_fuzzy == <<phrase_vars, codec_vars, build_vars, inverted_vars, combine_vars,
                     key_vars, reader_vars>>

other_than_phrase == <<fuzzy_vars, codec_vars, build_vars, inverted_vars, combine_vars,
                     key_vars, reader_vars>>

other_than_codec == <<fuzzy_vars, phrase_vars, build_vars, inverted_vars, combine_vars,
                     key_vars, reader_vars>>

NoLookup == [done |-> FALSE, query |-> <<>>, d |-> 0, result |-> <<>>]

\* ------------------------------------------------------------- FuzzyMap
\* Option<u64> of raw::Fst::get on the built map: the output stored for key,
\* or -1 for None.
fst_get(key) ==
    LET hits == {i \in 1..Len(fst) : fst[i][1] = key}
    IN IF hits = {} THEN -1 ELSE fst[CHOOSE i \in hits : TRUE][2]

\* raw::Builder::insert: a key not greater than the last one is refused
\* (DuplicateKey, OutOfOrder).
builder_accepts(entries, key) ==
    entries = <<>> \/ LexLess(entries[Len(entries)][1], key)

\* The length of the run of pairs at the front of s that share one key
\* (itertools group_by on t.0).
RECURSIVE RunLen(_)
RunLen(s) ==
    IF Len(s) <= 1 THEN Len(s)
    ELSE IF s[1][1] = s[2][1] THEN 1 + RunLen(Tail(s))
    ELSE 1

\* A slip: a key shared by several words keeps the first id of its group only.
RECURSIVE finish_groups_first(_, _, _)
finish_groups_first(pairs, entries, ids) ==
    IF pairs = <<>> THEN [ok |-> TRUE, fst |-> entries, id_list |-> ids]
    ELSE LET n   == RunLen(pairs)
             key == pairs[1][1]
         IN IF builder_accepts(entries, key)
            THEN finish_groups_first(SubSeq(pairs, n + 1, Len(pairs)),
                                     Append(entries, <<key, pairs[1][2]>>), ids)
            ELSE [ok |-> FALSE, fst |-> entries, id_list |-> ids]

\* The loop of FuzzyMapBuilder::finish over the sorted, deduplicated pairs.
RECURSIVE finish_groups(_, _, _)
finish_groups(pairs, entries, ids) ==
    IF pairs = <<>> THEN [ok |-> TRUE, fst |-> entries, id_list |-> ids]
    ELSE LET n    == RunLen(pairs)
             key  == pairs[1][1]
             opts == SubSeq(pairs, 1, n)
             ids2 == IF n = 1 THEN ids ELSE Append(ids, [i \in 1..n |-> opts[i][2]])
             id   == IF n = 1 THEN opts[1][2] ELSE Len(ids2) - 1 + BIG_NUMBER
         IN IF builder_accepts(entries, key)
            THEN finish_groups(SubSeq(pairs, n + 1, Len(pairs)),
                               Append(entries, <<key, id>>), ids2)
            ELSE [ok |-> FALSE, fst |-> entries, id_list |-> ids2]

\* A slip: the pairs are grouped in the order they were pushed.
finish_unsorted(pairs) == finish_groups(Dedup(pairs), <<>>, <<>>)

\* FuzzyMapBuilder::finish: sort, dedup, then the loop over the groups.
finish(pairs) == finish_groups(Dedup(SortPairs(pairs)), <<>>, <<>>)

\* FuzzyMapBuilder::insert followed over one ordering vs of the variant set.
insert(key, id, vs) ==
    word_variants \o <<<<key, id>>>> \o [i \in 1..Len(vs) |-> <<vs[i], id>>]

\* One probe of the lookup loop: the ids pushed for candidate key i.
probe_direct_only(i) ==
    LET uidx == fst_get(i)
    IN IF uidx = -1 \/ uidx >= BIG_NUMBER THEN <<>> ELSE <<uidx>>

probe(i) ==
    LET uidx == fst_get(i)
    IN IF uidx = -1 THEN <<>>
       ELSE IF uidx < BIG_NUMBER THEN <<uidx>>
       ELSE id_builder[uidx - BIG_NUMBER + 1]

RECURSIVE collect_matches(_)
collect_matches(cands) ==
    IF cands = <<>> THEN <<>>
    ELSE probe(Head(cands)) \o collect_matches(Tail(cands))

\* The caller's lookup_fn: |id| &words[id].
lookup_fn(id) == words[id + 1]

\* .map(|id| (lookup_fn(id), id)).filter(damerau_levenshtein(query, word) <= d)
verify_unfiltered(query, d, ids) == [k \in 1..Len(ids) |-> <<lookup_fn(ids[k]), ids[k]>>]

RECURSIVE verify(_, _, _)
verify(query, d, ids) ==
    IF ids = <<>> THEN <<>>
    ELSE LET word == lookup_fn(Head(ids))
             rest == verify(query, d, Tail(ids))
         IN IF damerau_levenshtein(query, word) <= d
            THEN <<<<word, Head(ids)>>>> \o rest
            ELSE rest

\* The candidate keys of a lookup: the query, then its variants (in order vs).
candidates_query_only(query, vs) == <<query>>

candidates(query, vs) == <<query>> \o vs

\* A slip: the matches are deduplicated but not sorted.
lookup_unsorted(query, d, vs) ==
    verify(query, d, Dedup(collect_matches(candidates(query, vs))))

\* FuzzyMap::lookup over one ordering vs of the query's variant set.
lookup(query, d, vs) ==
    LET matches == collect_matches(candidates(query, vs))
    IN verify(query, d, Dedup(SortNat(matches)))

FuzzyInit ==
    /\ edit_distance \in Distances
    /\ words = <<>>
    /\ word_variants = <<>>
    /\ id_builder = <<>>
    /\ fst = <<>>
    /\ fuzzy_state = "building"
    /\ looked = NoLookup

\* build_from_iter's loop body: insert(word, i) for the i-th word.
Insert ==
    /\ fuzzy_state = "building"
    /\ Len(words) < MaxWords
    /\ \E word \in AllStrings :
         \E vs \in VariantOrders(get_variants(word, edit_distance)) :
            /\ word_variants' = insert(word, Len(words), vs)
            /\ words' = Append(words, word)
    /\ UNCHANGED <<edit_distance, id_builder, fst, fuzzy_state, looked>>
    /\ UNCHANGED other_than_fuzzy

\* FuzzyMapBuilder::finish, then FuzzyMap::from_path on what it wrote.
Finish ==
    /\ fuzzy_state = "building"
    /\ LET r == finish(word_variants)
       IN /\ fst' = r.fst
          /\ id_builder' = r.id_list
          /\ fuzzy_state' = IF r.ok THEN "sealed" ELSE "failed"
    /\ word_variants' = <<>>
    /\ UNCHANGED <<edit_distance, words, looked>>
    /\ UNCHANGED other_than_fuzzy

\* FuzzyMap::lookup(query, d, |id| &words[id]).
Lookup ==
    /\ fuzzy_state = "sealed"
    /\ ~looked.done
    /\ \E query \in AllStrings, d \in Distances :
         \E vs \in VariantOrders(get_variants(query, d)) :
            looked' = [done |-> TRUE, query |-> query, d |-> d,
                       result |-> lookup(query, d, vs)]
    /\ UNCHANGED <<edit_distance, words, word_variants, id_builder, fst, fuzzy_state>>
    /\ UNCHANGED other_than_fuzzy

\* The caller drops the returned Vec; the map is ready for the next query.
Return ==
    /\ looked.done
    /\ looked' = NoLookup
    /\ UNCHANGED <<edit_distance, words, word_variants, id_builder, fst, fuzzy_state>>
    /\ UNCHANGED other_than_fuzzy

FuzzyNext == Insert \/ Finish \/ Lookup \/ Return

\* ------------------------------------------ the builder, call by call
\* FuzzyMapBuilder used through new, insert and finish, with the files it
\* creates under the target path and the I/O errors each step can meet.

\* The ids handed to insert(key, id): u64 values on both sides of BIG_NUMBER.
BuildIds == {0, 1, BIG_NUMBER, BIG_NUMBER + 1}

\* The words handed to insert.
BuildKeys == SeqsUpTo(Chars, MaxWordLen - 1)

\* Nothing lies at <stem>.fst or <stem>.msg.
NoFiles == [fst |-> "absent", msg |-> "absent"]

\* The step of new, and of finish, at which an I/O error strikes ("none": at
\* no step).
NewFailures == {"none", "create_fst", "new_type"}
FinishFailures == {"none", "insert", "create_msg", "serialize", "finish"}

\* The files after FuzzyMapBuilder::new: File::create leaves an empty file at
\* <stem>.fst unless it fails itself; nothing removes it when new_type fails.
files_after_new(fail) ==
    IF fail = "create_fst" THEN disk ELSE [disk EXCEPT !.fst = "partial"]

\* The files after FuzzyMapBuilder::finish: the .fst file is complete only
\* once raw::Builder::finish returned Ok; the .msg file exists once
\* File::create returned Ok and is complete once serialize returned Ok.
files_after_finish(fail) ==
    CASE fail = "none"       -> [fst |-> "complete", msg |-> "complete"]
      [] fail = "insert"     -> [disk EXCEPT !.fst = "partial"]
      [] fail = "create_msg" -> [disk EXCEPT !.fst = "partial"]
      [] fail = "serialize"  -> [fst |-> "partial", msg |-> "partial"]
      [] fail = "finish"     -> [fst |-> "partial", msg |-> "complete"]

\* FuzzyMapBuilder::new(path, edit_distance).
BuilderNew ==
    /\ fuzzy_state = "unbuilt"
    /\ \E d \in Distances, fail \in NewFailures :
          /\ disk' = files_after_new(fail)
          /\ IF fail = "none"
             THEN edit_distance' = d /\ fuzzy_state' = "building"
             ELSE edit_distance' = edit_distance /\ fuzzy_state' = "failed"
    /\ UNCHANGED <<words, word_variants, id_builder, fst, looked, entered>>
    /\ UNCHANGED <<phrase_vars, codec_vars, inverted_vars, combine_vars,
                     key_vars, reader_vars>>

\* FuzzyMapBuilder::insert(key, id), called by the user of the builder.
BuilderInsert ==
    /\ fuzzy_state = "building"
    /\ Len(entered) < MaxWords
    /\ \E key \in BuildKeys, id \in BuildIds :
         \E vs \in VariantOrders(get_variants(key, edit_distance)) :
            /\ word_variants' = insert(key, id, vs)
            /\ entered' = Append(entered, <<key, id>>)
    /\ UNCHANGED <<edit_distance, words, id_builder, fst, fuzzy_state, looked, disk>>
    /\ UNCHANGED <<phrase_vars, codec_vars, inverted_vars, combine_vars,
                     key_vars, reader_vars>>

\* FuzzyMapBuilder::finish(); an error at builder.insert strikes at the k-th
\* key.
BuilderFinish ==
    /\ fuzzy_state = "building"
    /\ LET r == finish(word_variants)
       IN \E fail \in FinishFailures :
             /\ fail = "insert" => r.fst # <<>>
             /\ disk' = files_after_finish(IF r.ok THEN fail ELSE "insert")
             /\ id_builder' = r.id_list
             /\ IF fail = "insert"
                THEN \E k \in 1..Len(r.fst) : fst' = SubSeq(r.fst, 1, k - 1)
                ELSE fst' = r.fst
             /\ fuzzy_state' = IF r.ok /\ fail = "none" THEN "sealed" ELSE "failed"
    /\ word_variants' = <<>>
    /\ UNCHANGED <<edit_distance, words, looked, entered>>
    /\ UNCHANGED <<phrase_vars, codec_vars, inverted_vars, combine_vars,
                     key_vars, reader_vars>>

BuildNext == BuilderNew \/ BuilderInsert \/ BuilderFinish

\* ------------------------------------------------------ three-byte codec
\* The n low bytes of num, most significant first.
RECURSIVE be_bytes(_, _)
be_bytes(num, n) ==
    IF n = 0 THEN <<>> ELSE be_bytes(num \div 256, n - 1) \o <<num % 256>>

\* chop_int: write_u64::<BigEndian>(num).
chop_int(num) == be_bytes(num, 8)

\* A slip in the slice: the bytes in little-endian order.
three_byte_encode_le(num) ==
    LET chopped == chop_int(num) IN <<chopped[8], chopped[7], chopped[6]>>

\* A slip in the slice: chopped[4..7].
three_byte_encode_shifted(num) == SubSeq(chop_int(num), 5, 7)

\* three_byte_encode: chopped[5..8].
three_byte_encode(num) == SubSeq(chop_int(num), 6, 8)

\* read_u64::<BigEndian> over the first eight bytes of s.
RECURSIVE be_value(_, _)
be_value(s, n) ==
    IF n = 0 THEN 0 ELSE be_value(s, n - 1) * 256 + s[n]

\* A slip: the high byte is not read.
three_byte_decode_low(three_bytes) ==
    be_value(<<0, 0, 0, 0, 0, 0>> \o Tail(three_bytes), 8)

\* three_byte_decode: five zero bytes, then three_bytes, read as a u64.
three_byte_decode(three_bytes) == be_value(<<0, 0, 0, 0, 0>> \o three_bytes, 8)

\* phrase_to_key: flat_map of three_byte_encode.
RECURSIVE phrase_to_key(_)
phrase_to_key(phrase) ==
    IF phrase = <<>> THEN <<>>
    ELSE three_byte_encode(Head(phrase)) \o phrase_to_key(Tail(phrase))

\* word_ids_to_key(&[u32]): the key of a phrase, three bytes a word.
word_ids_to_key(phrase) == phrase_to_key(phrase)

\* ------------------------------------------------------------ query model
\* QueryWord::Full { id, edit_distance } and QueryWord::Prefix { id_range }.
Full(id) == <<"Full", id, 0>>
Prefix(min_id, max_id) == <<"Prefix", min_id, max_id>>

\* QueryPhrase.has_prefix: the last word is a Prefix.
has_prefix(phrase) == phrase[Len(phrase)][1] = "Prefix"

\* The ids of the Full words of a phrase, in order.
full_word_ids(phrase) ==
    LET n == IF has_prefix(phrase) THEN Len(phrase) - 1 ELSE Len(phrase)
    IN [k \in 1..n |-> phrase[k][2]]

\* QueryPhrase::full_word_key: the key of the Full words.
full_word_key(phrase) == word_ids_to_key(full_word_ids(phrase))

\* QueryPhrase::prefix_key_range: the three-byte keys of the Prefix's bounds.
prefix_key_range(phrase) ==
    LET last == phrase[Len(phrase)]
    IN <<three_byte_encode(last[2]), three_byte_encode(last[3])>>

\* ------------------------------------------------------------- PhraseSet
\* Most words in a phrase, and most phrases inserted in one set.
MaxPhraseLen == 2
MaxPhrases == 3

\* The word-ids phrases are made of, and the bounds of Prefix ranges.
PhraseIds == {1, 256, 258, 65536}
RangeIds == {0, 2, 257, 258, 65535, 16777215}

AllPhrases == SeqsUpTo(PhraseIds, MaxPhraseLen)

QueryPhrases ==
    {[k \in 1..Len(p) |-> Full(p[k])] : p \in AllPhrases \ {<<>>}}
    \cup {[k \in 1..Len(p) |-> Full(p[k])] \o <<Prefix(r[1], r[2])>> :
              p \in SeqsUpTo(PhraseIds, MaxPhraseLen - 1),
              r \in {x \in RangeIds \X RangeIds : x[1] <= x[2]}}



NoAnswer == [op |-> "none", phrase |-> <<>>, result |-> "none", keys |-> <<>>]

\* a is a prefix of b.
IsPrefix(a, b) == Len(a) <= Len(b) /\ SubSeq(b, 1, Len(a)) = a

\* Node::transitions of the node at path addr: one transition per next byte of
\* a stored key, ascending by input byte; each leads to the node at addr + inp.
transitions(addr) ==
    LET n    == Len(addr)
        inps == {key[n + 1] : key \in {k \in set_keys : Len(k) > n /\ IsPrefix(addr, k)}}
        asc  == AscSeq({<<b>> : b \in inps})
    IN [k \in 1..Len(asc) |-> [inp |-> asc[k][1], addr |-> addr \o asc[k]]]

\* A slip: nothing is skipped.
skip_while_none(ts, bound) == ts

\* Iterator::skip_while(|t| t.inp < bound).
RECURSIVE skip_while(_, _)
skip_while(ts, bound) ==
    IF ts = <<>> THEN <<>>
    ELSE IF Head(ts).inp < bound THEN skip_while(Tail(ts), bound)
    ELSE ts

\* Node::find_input(b) is Some: the node at addr has a transition on byte b.
find_input(addr, b) == \E k \in set_keys : IsPrefix(addr \o <<b>>, k)

None == [found |-> FALSE, addr |-> <<>>]
Some(a) == [found |-> TRUE, addr |-> a]

\* A slip: the walk succeeds only on a complete key.
partial_search_final(start_addr, key) ==
    IF (start_addr \o key) \in set_keys THEN Some(start_addr \o key) ELSE None

\* PhraseSet::partial_search: the byte-by-byte walk from start_addr.
RECURSIVE partial_search(_, _)
partial_search(start_addr, key) ==
    IF key = <<>> THEN Some(start_addr)
    ELSE IF ~find_input(start_addr, Head(key)) THEN None
    ELSE partial_search(start_addr \o <<Head(key)>>, Tail(key))

\* A slip: the lower bound is kept below a byte that is already greater.
RECURSIVE find_first_after_sticky(_, _, _, _)
find_first_after_sticky(ts, min_key, must_skip, i) ==
    IF i = 2
    THEN IF ts # <<>> THEN <<0, 0, Head(ts).inp>> ELSE <<>>
    ELSE IF ts = <<>> THEN <<>>
    ELSE LET t == Head(ts)
             recurse_result ==
                 IF must_skip
                 THEN find_first_after_sticky(
                          skip_while(transitions(t.addr), min_key[i + 2]),
                          min_key, must_skip, i + 1)
                 ELSE find_first_after_sticky(transitions(t.addr), min_key, must_skip, i + 1)
         IN IF recurse_result # <<>>
            THEN [recurse_result EXCEPT ![i + 1] = t.inp]
            ELSE find_first_after_sticky(Tail(ts), min_key, must_skip, i)

\* find_first_after (inside contains_prefix_with_range); i counts from 0 as in
\* the source, ts is what is left of the transitions iterator, <<>> is None.
RECURSIVE find_first_after(_, _, _, _)
find_first_after(ts, min_key, must_skip, i) ==
    IF i = 2
    THEN IF ts # <<>> THEN <<0, 0, Head(ts).inp>> ELSE <<>>
    ELSE IF ts = <<>> THEN <<>>
    ELSE LET t == Head(ts)
             next_must_skip == must_skip /\ t.inp = min_key[i + 1]
             recurse_result ==
                 IF next_must_skip
                 THEN find_first_after(skip_while(transitions(t.addr), min_key[i + 2]),
                                       min_key, next_must_skip, i + 1)
                 ELSE find_first_after(transitions(t.addr), min_key, next_must_skip, i + 1)
         IN IF recurse_result # <<>>
            THEN [recurse_result EXCEPT ![i + 1] = t.inp]
            ELSE find_first_after(Tail(ts), min_key, must_skip, i)

\* PhraseSet::contains_prefix_with_range.
contains_prefix_with_range(phrase) ==
    LET sought == prefix_key_range(phrase)
        sought_min_key == sought[1]
        sought_max_key == sought[2]
        walked == partial_search(<<>>, full_word_key(phrase))
    IN IF ~walked.found THEN FALSE
       ELSE IF transitions(walked.addr) = <<>> THEN FALSE
       ELSE LET result == find_first_after(
                              skip_while(transitions(walked.addr), sought_min_key[1]),
                              sought_min_key, TRUE, 0)
            IN IF result = <<>> THEN FALSE ELSE LexLeq(result, sought_max_key)

\* A slip: the Prefix check is left out.
contains_unchecked(phrase) ==
    IF full_word_key(phrase) \in set_keys THEN "true" ELSE "false"

\* A slip: membership tested by the walk alone.
contains_by_walk(phrase) ==
    IF has_prefix(phrase) THEN "err"
    ELSE IF partial_search(<<>>, full_word_key(phrase)).found THEN "true" ELSE "false"

\* PhraseSet::contains: Err, Ok(true) or Ok(false).
contains(phrase) ==
    IF has_prefix(phrase) THEN "err"
    ELSE IF full_word_key(phrase) \in set_keys THEN "true" ELSE "false"

\* PhraseSet::contains_prefix.
contains_prefix(phrase) ==
    IF has_prefix(phrase)
    THEN IF contains_prefix_with_range(phrase) THEN "true" ELSE "false"
    ELSE IF partial_search(<<>>, full_word_key(phrase)).found THEN "true" ELSE "false"

\* A slip: the upper bound admits every key that starts with max_key.
range_open_end(phrase) ==
    LET min_key == full_word_key(phrase) \o prefix_key_range(phrase)[1]
        max_key == full_word_key(phrase) \o prefix_key_range(phrase)[2]
    IN IF \E k \in set_keys : LexLeq(min_key, k) /\ (LexLeq(k, max_key) \/ IsPrefix(max_key, k))
       THEN "true" ELSE "false"

\* PhraseSet::range: the stream over the keys k with min_key <= k <= max_key
\* yields a first key or none.
range(phrase) ==
    LET min_key == full_word_key(phrase) \o prefix_key_range(phrase)[1]
        max_key == full_word_key(phrase) \o prefix_key_range(phrase)[2]
        range_stream == {k \in set_keys : LexLeq(min_key, k) /\ LexLeq(k, max_key)}
    IN IF range_stream # {} THEN "true" ELSE "false"

\* fst::set::Stream over the whole set: its keys, ascending.
stream_keys == AscSeq(set_keys)

PhraseInit ==
    /\ set_keys = {}
    /\ builder_last = <<>>
    /\ inserted = {}
    /\ insert_err = FALSE
    /\ phrase_state = "building"
    /\ answer = NoAnswer

\* PhraseSetBuilder::insert: SetBuilder::insert refuses a key smaller than
\* the last one (OutOfOrder) and takes any other.
PhraseInsert ==
    /\ phrase_state = "building"
    /\ Cardinality(inserted) < MaxPhrases
    /\ \E phrase \in AllPhrases :
         LET key == word_ids_to_key(phrase)
         IN IF LexLess(key, builder_last)
            THEN /\ insert_err' = TRUE
                 /\ UNCHANGED <<set_keys, builder_last, inserted>>
            ELSE /\ insert_err' = FALSE
                 /\ set_keys' = set_keys \cup {key}
                 /\ builder_last' = key
                 /\ inserted' = inserted \cup {phrase}
    /\ UNCHANGED <<phrase_state, answer>>
    /\ UNCHANGED other_than_phrase

\* PhraseSetBuilder::into_inner, then PhraseSet::from_bytes.
IntoInner ==
    /\ phrase_state = "building"
    /\ phrase_state' = "sealed"
    /\ insert_err' = FALSE
    /\ UNCHANGED <<set_keys, builder_last, inserted, answer>>
    /\ UNCHANGED other_than_phrase

Contains ==
    /\ phrase_state = "sealed"
    /\ answer.op = "none"
    /\ \E phrase \in QueryPhrases :
         answer' = [op |-> "contains", phrase |-> phrase,
                    result |-> contains(phrase), keys |-> <<>>]
    /\ UNCHANGED <<set_keys, builder_last, inserted, insert_err, phrase_state>>
    /\ UNCHANGED other_than_phrase

ContainsPrefix ==
    /\ phrase_state = "sealed"
    /\ answer.op = "none"
    /\ \E phrase \in QueryPhrases :
         answer' = [op |-> "contains_prefix", phrase |-> phrase,
                    result |-> contains_prefix(phrase), keys |-> <<>>]
    /\ UNCHANGED <<set_keys, builder_last, inserted, insert_err, phrase_state>>
    /\ UNCHANGED other_than_phrase

\* PhraseSet::range; it unwraps prefix_key_range, so it is called with phrases
\* that end in a Prefix.
Range ==
    /\ phrase_state = "sealed"
    /\ answer.op = "none"
    /\ \E phrase \in {q \in QueryPhrases : has_prefix(q)} :
         answer' = [op |-> "range", phrase |-> phrase,
                    result |-> range(phrase), keys |-> <<>>]
    /\ UNCHANGED <<set_keys, builder_last, inserted, insert_err, phrase_state>>
    /\ UNCHANGED other_than_phrase

\* (&PhraseSet).into_stream(), drained.
Stream ==
    /\ phrase_state = "sealed"
    /\ answer.op = "none"
    /\ answer' = [op |-> "stream", phrase |-> <<>>, result |-> "none",
                  keys |-> stream_keys]
    /\ UNCHANGED <<set_keys, builder_last, inserted, insert_err, phrase_state>>
    /\ UNCHANGED other_than_phrase

\* The caller drops the answer; the set is ready for the next query.
PhraseReturn ==
    /\ answer.op # "none"
    /\ answer' = NoAnswer
    /\ UNCHANGED <<set_keys, builder_last, inserted, insert_err, phrase_state>>
    /\ UNCHANGED other_than_phrase

PhraseNext ==
    PhraseInsert \/ IntoInner \/ Contains \/ ContainsPrefix \/ Range \/ Stream
        \/ PhraseReturn

\* ----------------------------------------------------------- codec runs
\* Word-ids at the byte boundaries of the encoding, and ids of more than 24
\* bits.
CodecBytes == {0, 1, 127, 255}
WordIdLimit == 16777216
CodecIds ==
    {b[1] * 65536 + b[2] * 256 + b[3] : b \in CodecBytes \X CodecBytes \X CodecBytes}
    \cup {WordIdLimit, WordIdLimit + 1, 4 * WordIdLimit + 258, BIG_NUMBER + 65536}

CodecIdle ==
    /\ codec_id = 0
    /\ codec_bytes = <<>>
    /\ codec_back = 0
    /\ codec_pc = "start"

CodecInit ==
    /\ codec_id \in CodecIds
    /\ codec_bytes = <<>>
    /\ codec_back = 0
    /\ codec_pc = "start"

Encode ==
    /\ codec_pc = "start"
    /\ codec_bytes' = three_byte_encode(codec_id)
    /\ codec_pc' = "encoded"
    /\ UNCHANGED <<codec_id, codec_back>>
    /\ UNCHANGED other_than_codec

Decode ==
    /\ codec_pc = "encoded"
    /\ codec_back' = three_byte_decode(codec_bytes)
    /\ codec_pc' = "decoded"
    /\ UNCHANGED <<codec_id, codec_bytes>>
    /\ UNCHANGED other_than_codec

CodecNext == Encode \/ Decode

\* --------------------------------------------------------- InvertedIndex
\* Most insert calls on one InvertedIndexBuilder.
MaxPostings == 2

\* The word-ids and phrase-ids handed to InvertedIndexBuilder::insert, the
\* word lists, and the word-ids asked for.
InvWordIds == {0, 1, 3}
InvPhraseIds == {0, 1, 300}
InvWordLists == SeqsUpTo(InvWordIds, 2)
InvQueryIds == 0..4

\* The elements of a finite set of numbers, ascending: BTreeMap's key order.
RECURSIVE AscNat(_)
AscNat(S) ==
    IF S = {} THEN <<>>
    ELSE LET m == CHOOSE x \in S : \A y \in S : x <= y
         IN <<m>> \o AscNat(S \ {m})

\* The bytes of a u32, least significant first, without leading zero bytes.
RECURSIVE le_bytes(_)
le_bytes(n) == IF n < 256 THEN <<n>> ELSE <<n % 256>> \o le_bytes(n \div 256)

RECURSIVE le_value(_)
le_value(bytes) ==
    IF bytes = <<>> THEN 0 ELSE Head(bytes) + 256 * le_value(Tail(bytes))

\* One control byte for every four values, two bits a value: its length in
\* bytes, less one.
RECURSIVE control_bytes(_)
control_bytes(codes) ==
    IF codes = <<>> THEN <<>>
    ELSE LET c(k) == IF k <= Len(codes) THEN codes[k] ELSE 0
         IN <<c(1) + 4 * c(2) + 16 * c(3) + 64 * c(4)>>
                \o control_bytes(SubSeq(codes, 5, Len(codes)))

RECURSIVE data_bytes(_)
data_bytes(ds) ==
    IF ds = <<>> THEN <<>> ELSE le_bytes(Head(ds)) \o data_bytes(Tail(ds))

\* fast_intersection::streamvbyte_delta_encode(ids, prev): each value is
\* written as its difference from the one before (the first from prev), the
\* control bytes first, then the data bytes.
streamvbyte_delta_encode(ids, prev) ==
    LET ds == [k \in 1..Len(ids) |-> ids[k] - (IF k = 1 THEN prev ELSE ids[k - 1])]
    IN control_bytes([k \in 1..Len(ds) |-> Len(le_bytes(ds[k])) - 1]) \o data_bytes(ds)

\* The decoder's loop: value number k (from 0) of count, its bytes at pos.
RECURSIVE decode_from(_, _, _, _, _)
decode_from(bytes, k, count, pos, prev) ==
    IF k = count THEN <<>>
    ELSE LET ctl == bytes[(k \div 4) + 1]
             n   == ((ctl \div (4 ^ (k % 4))) % 4) + 1
             id  == prev + le_value(SubSeq(bytes, pos, pos + n - 1))
         IN <<id>> \o decode_from(bytes, k + 1, count, pos + n, id)

\* fast_intersection::streamvbyte_delta_decode(compressed, count, prev).
streamvbyte_delta_decode(compressed, count, prev) ==
    decode_from(compressed, 0, count, ((count + 3) \div 4) + 1, prev)

\* fast_intersection::simd_intersection_avx2 on two ascending lists.
RECURSIVE simd_intersection_avx2(_, _)
simd_intersection_avx2(a, b) ==
    IF a = <<>> \/ b = <<>> THEN <<>>
    ELSE IF Head(a) < Head(b) THEN simd_intersection_avx2(Tail(a), b)
    ELSE IF Head(b) < Head(a) THEN simd_intersection_avx2(a, Tail(b))
    ELSE <<Head(a)>> \o simd_intersection_avx2(Tail(a), Tail(b))

\* InvertedIndexBuilder::insert(phrase_id, words) on the map idx.
RECURSIVE index_insert(_, _, _)
index_insert(idx, phrase_id, ws) ==
    IF ws = <<>> THEN idx
    ELSE LET word     == Head(ws)
             word_vec == IF word \in DOMAIN idx THEN idx[word] ELSE <<>>
         IN index_insert(
                [x \in DOMAIN idx \cup {word} |->
                    IF x = word THEN Append(word_vec, phrase_id) ELSE idx[x]],
                phrase_id, Tail(ws))

\* Entry { count: 0, compressed_ids: [] }.
empty_entry == [count |-> 0, compressed_ids |-> <<>>]

\* A slip: no entries are written for the word-ids that were skipped.
fill_gap_none(last_idx, iword_id) == <<>>

\* into_inner, lines 186-192: one empty entry for every word-id between the
\* last one written and iword_id.
fill_gap(last_idx, iword_id) ==
    IF iword_id > last_idx + 1
    THEN [i \in 1..(iword_id - last_idx - 1) |-> empty_entry]
    ELSE <<>>

\* A slip: dedup() is left out.
sorted_postings_kept(phrases) == SortNat(phrases)

\* into_inner, lines 194-195: phrases.sort(); phrases.dedup().
sorted_postings(phrases) == Dedup(SortNat(phrases))

\* The loop of InvertedIndexBuilder::into_inner over the map in key order.
RECURSIVE into_inner_loop(_, _, _, _)
into_inner_loop(idx, keys, last_idx, out) ==
    IF keys = <<>> THEN out
    ELSE LET word_id == Head(keys)
             phrases == sorted_postings(idx[word_id])
             entry   == [count |-> Len(phrases),
                         compressed_ids |-> streamvbyte_delta_encode(phrases, 0)]
         IN into_inner_loop(idx, Tail(keys), word_id,
                            out \o fill_gap(last_idx, word_id) \o <<entry>>)

\* InvertedIndexBuilder::into_inner: the entries vector it writes.
inverted_into_inner(idx) == into_inner_loop(idx, AscNat(DOMAIN idx), -1, <<>>)

\* What a call gives back: it panics, or returns ids.
Panics == [ok |-> FALSE, ids |-> <<>>]
Returns(ids) == [ok |-> TRUE, ids |-> ids]

\* What entries().get(word_id) yields for a word_id past the end of the
\* vector, a read the code does not guard: a panic, or whatever bytes lie
\* there read as an entry.
WildReads == {Panics} \cup {Returns(l) : l \in {<<>>, <<0>>, <<0, 1>>}}

\* InvertedIndex::phrases_for_word; wild is the outcome of a read past the end.
phrases_for_word(word_id, wild) ==
    IF word_id >= Len(index_entries) THEN wild
    ELSE LET entry == index_entries[word_id + 1]
             count == entry.count
         IN Returns(IF count = 0 THEN <<>>
                    ELSE streamvbyte_delta_decode(entry.compressed_ids, count, 0))

\* The loop of InvertedIndex::get_intersection; some is matches.is_some().
RECURSIVE intersection_loop(_, _, _, _)
intersection_loop(ids, some, existing, wild) ==
    IF ids = <<>> THEN Returns(IF some THEN existing ELSE <<>>)
    ELSE LET phrases == phrases_for_word(Head(ids), wild)
         IN IF ~phrases.ok THEN Panics
            ELSE intersection_loop(
                     Tail(ids), TRUE,
                     IF some THEN simd_intersection_avx2(existing, phrases.ids)
                     ELSE phrases.ids,
                     wild)

get_intersection(ids, wild) == intersection_loop(ids, FALSE, <<>>, wild)

\* InvertedIndex::contains: "true", "false", or "panic" (a Prefix word, or a
\* read that panics).
inverted_contains(phrase, wild) ==
    IF \E k \in 1..Len(phrase) : phrase[k][1] = "Prefix" THEN "panic"
    ELSE LET intersection == get_intersection([k \in 1..Len(phrase) |-> phrase[k][2]], wild)
         IN IF ~intersection.ok THEN "panic"
            ELSE IF Len(intersection.ids) > 0 THEN "true" ELSE "false"

\* InvertedIndex::contains_prefix: Ok(true), whatever the phrase.
inverted_contains_prefix(phrase) == "true"

\* The caller's phrase_lookup_fn: the words phrase_id was first inserted with
\* (no words for a phrase-id that was never inserted).
phrase_lookup_fn(phrase_id) ==
    LET calls == {n \in 1..Len(inv_calls) : inv_calls[n][1] = phrase_id}
    IN IF calls = {} THEN <<>>
       ELSE inv_calls[CHOOSE n \in calls : \A m \in calls : n <= m][2]

\* InvertedIndex::match_substring: the phrases of the intersection, each as
\* Full words, or a panic (a Prefix word, or a read that panics).
match_substring(phrase, wild) ==
    IF \E k \in 1..Len(phrase) : phrase[k][1] = "Prefix"
    THEN [ok |-> FALSE, phrases |-> <<>>]
    ELSE LET intersection == get_intersection([k \in 1..Len(phrase) |-> phrase[k][2]], wild)
         IN IF ~intersection.ok THEN [ok |-> FALSE, phrases |-> <<>>]
            ELSE [ok |-> TRUE,
                  phrases |-> [n \in 1..Len(intersection.ids) |->
                                  LET found == phrase_lookup_fn(intersection.ids[n])
                                  IN [k \in 1..Len(found) |-> Full(found[k])]]]

\* The phrases asked for: one or two Full words, or a Full word and a Prefix.
InvQueryPhrases ==
    {[k \in 1..Len(p) |-> Full(p[k])] : p \in SeqsUpTo(InvQueryIds, 2) \ {<<>>}}
    \cup {<<Full(0), Prefix(0, 1)>>}

NoInvAnswer == [op |-> "none", phrase |-> <<>>, word_id |-> 0, result |-> "none", ids |-> <<>>]

InvInsert ==
    /\ inv_state = "building"
    /\ Len(inv_calls) < MaxPostings
    /\ \E phrase_id \in InvPhraseIds, ws \in InvWordLists :
          /\ index' = index_insert(index, phrase_id, ws)
          /\ inv_calls' = Append(inv_calls, <<phrase_id, ws>>)
    /\ UNCHANGED <<index_entries, inv_state, inv_answer>>
    /\ UNCHANGED <<fuzzy_vars, phrase_vars, codec_vars, build_vars, combine_vars,
                   key_vars, reader_vars>>

\* InvertedIndexBuilder::into_inner, then InvertedIndex::from_bytes.
InvIntoInner ==
    /\ inv_state = "building"
    /\ index_entries' = inverted_into_inner(index)
    /\ inv_state' = "sealed"
    /\ UNCHANGED <<index, inv_calls, inv_answer>>
    /\ UNCHANGED <<fuzzy_vars, phrase_vars, codec_vars, build_vars, combine_vars,
                   key_vars, reader_vars>>

InvContains ==
    /\ inv_state = "sealed"
    /\ inv_answer.op = "none"
    /\ \E phrase \in InvQueryPhrases, wild \in WildReads :
          inv_answer' = [op |-> "contains", phrase |-> phrase, word_id |-> 0,
                         result |-> inverted_contains(phrase, wild), ids |-> <<>>]
    /\ UNCHANGED <<index, index_entries, inv_calls, inv_state>>
    /\ UNCHANGED <<fuzzy_vars, phrase_vars, codec_vars, build_vars, combine_vars,
                   key_vars, reader_vars>>

InvContainsPrefix ==
    /\ inv_state = "sealed"
    /\ inv_answer.op = "none"
    /\ \E phrase \in InvQueryPhrases :
          inv_answer' = [op |-> "contains_prefix", phrase |-> phrase, word_id |-> 0,
                         result |-> inverted_contains_prefix(phrase), ids |-> <<>>]
    /\ UNCHANGED <<index, index_entries, inv_calls, inv_state>>
    /\ UNCHANGED <<fuzzy_vars, phrase_vars, codec_vars, build_vars, combine_vars,
                   key_vars, reader_vars>>

InvPhrasesForWord ==
    /\ inv_state = "sealed"
    /\ inv_answer.op = "none"
    /\ \E word_id \in InvQueryIds, wild \in WildReads :
          LET r == phrases_for_word(word_id, wild)
          IN inv_answer' = [op |-> "phrases_for_word", phrase |-> <<>>,
                            word_id |-> word_id,
                            result |-> IF r.ok THEN "ok" ELSE "panic", ids |-> r.ids]
    /\ UNCHANGED <<index, index_entries, inv_calls, inv_state>>
    /\ UNCHANGED <<fuzzy_vars, phrase_vars, codec_vars, build_vars, combine_vars,
                   key_vars, reader_vars>>

\* The caller drops the answer; the index is ready for the next query.
InvReturn ==
    /\ inv_answer.op # "none"
    /\ inv_answer' = NoInvAnswer
    /\ UNCHANGED <<index, index_entries, inv_calls, inv_state>>
    /\ UNCHANGED <<fuzzy_vars, phrase_vars, codec_vars, build_vars, combine_vars,
                   key_vars, reader_vars>>

InvertedNext ==
    InvInsert \/ InvIntoInner \/ InvContains \/ InvContainsPrefix \/ InvPhrasesForWord
        \/ InvReturn

\* ------------------------------------------------- combination searches
\* PhraseSet::match_combinations and match_combinations_as_windows.
\* Largest edit-distance budget handed to a search.
MaxBudget == 1

\* QueryWord::new_full(id, edit_distance) and QueryWord::new_prefix(id_range).
new_full(id, distance) == <<"Full", id, distance>>
new_prefix(min_id, max_id) == <<"Prefix", min_id, max_id>>

\* The candidate lists of one position: a single exact word, two words by
\* rising and by falling edit distance, two inexact words, a Prefix alone,
\* after an exact word and after an inexact one.
CandidateLists ==
    { <<new_full(1, 0)>>,
      <<new_full(256, 0)>>,
      <<new_full(1, 0), new_full(256, 1)>>,
      <<new_full(256, 1), new_full(1, 0)>>,
      <<new_full(1, 1), new_full(258, 1)>>,
      <<new_prefix(0, 257)>>,
      <<new_full(256, 0), new_prefix(2, 65535)>>,
      <<new_full(1, 1), new_prefix(0, 257)>> }

\* word_possibilities: one candidate list for each position.
Possibilities == UNION {[1..n -> CandidateLists] : n \in 1..MaxPhraseLen}

NoMatch == [op |-> "none", possibilities |-> <<>>, budget |-> 0,
            ends_in_prefix |-> FALSE, ok |-> TRUE, out |-> <<>>]

\* Result<Vec<_>, PhraseSetError>.
Err == [ok |-> FALSE, out |-> <<>>]
Ok(out) == [ok |-> TRUE, out |-> out]

\* A slip: every node counts as final.
is_final_any(addr) == TRUE

\* Node::is_final of the node at path addr: a key ends there.
is_final(addr) == addr \in set_keys

\* A slip: a Prefix candidate is taken for a Full word.
is_prefix_word_never(word) == FALSE

\* The candidate is a QueryWord::Prefix.
is_prefix_word(word) == word[1] = "Prefix"

\* prefix_range_walk from the node at addr: some three-byte path within the
\* Prefix's key range leaves that node.
matches_prefix_range(addr, word) ==
    LET min_key == three_byte_encode(word[2])
        max_key == three_byte_encode(word[3])
    IN IF transitions(addr) = <<>> THEN FALSE
       ELSE LET result == find_first_after(skip_while(transitions(addr), min_key[1]),
                                           min_key, TRUE, 0)
            IN IF result = <<>> THEN FALSE ELSE LexLeq(result, max_key)

\* The recursion of match_combinations: the candidates cands that are left at
\* this position, tried in order from the node at addr with budget left;
\* so_far are the words chosen at the positions before.
RECURSIVE exact_recurse(_, _, _, _, _, _)
exact_recurse(possibilities, position, cands, addr, budget, so_far) ==
    IF cands = <<>> THEN Ok(<<>>)
    ELSE LET word == Head(cands)
         IN IF is_prefix_word(word) THEN Err
            ELSE IF budget - word[3] < 0 THEN Ok(<<>>)
            ELSE LET walked == partial_search(addr, three_byte_encode(word[2]))
                     taken  == Append(so_far, word)
                     here   ==
                         IF ~walked.found THEN Ok(<<>>)
                         ELSE IF position = Len(possibilities)
                         THEN Ok(IF is_final(walked.addr) THEN <<taken>> ELSE <<>>)
                         ELSE exact_recurse(possibilities, position + 1,
                                            possibilities[position + 1], walked.addr,
                                            budget - word[3], taken)
                     rest   == exact_recurse(possibilities, position, Tail(cands),
                                             addr, budget, so_far)
                 IN IF here.ok /\ rest.ok THEN Ok(here.out \o rest.out) ELSE Err

match_combinations(word_possibilities, max_phrase_dist) ==
    exact_recurse(word_possibilities, 1, word_possibilities[1], <<>>,
                  max_phrase_dist, <<>>)

\* The recursion of match_combinations_as_windows; it emits pairs of a window
\* and a tag.
RECURSIVE window_recurse(_, _, _, _, _, _, _)
window_recurse(possibilities, position, cands, addr, budget, so_far, ends_in_prefix) ==
    IF cands = <<>> THEN Ok(<<>>)
    ELSE LET word  == Head(cands)
             taken == Append(so_far, word)
             rest  == window_recurse(possibilities, position, Tail(cands), addr,
                                     budget, so_far, ends_in_prefix)
         IN IF is_prefix_word(word)
            THEN IF ~ends_in_prefix THEN Err
                 ELSE IF ~rest.ok THEN Err
                 ELSE Ok((IF matches_prefix_range(addr, word)
                          THEN <<<<taken, ends_in_prefix>>>> ELSE <<>>) \o rest.out)
            ELSE IF budget - word[3] < 0 THEN Ok(<<>>)
            ELSE LET walked == partial_search(addr, three_byte_encode(word[2]))
                     here   ==
                         IF ~walked.found THEN Ok(<<>>)
                         ELSE IF position = Len(possibilities)
                         THEN Ok(IF is_final(walked.addr) \/ ends_in_prefix
                                 THEN <<<<taken, ends_in_prefix>>>> ELSE <<>>)
                         ELSE LET deeper == window_recurse(
                                                possibilities, position + 1,
                                                possibilities[position + 1], walked.addr,
                                                budget - word[3], taken, ends_in_prefix)
                              IN IF ~deeper.ok THEN Err
                                 ELSE Ok((IF is_final(walked.addr)
                                          THEN <<<<taken, FALSE>>>> ELSE <<>>)
                                         \o deeper.out)
                 IN IF here.ok /\ rest.ok THEN Ok(here.out \o rest.out) ELSE Err

match_combinations_as_windows(word_possibilities, max_phrase_dist, ends_in_prefix) ==
    window_recurse(word_possibilities, 1, word_possibilities[1], <<>>,
                   max_phrase_dist, <<>>, ends_in_prefix)

MatchCombinations ==
    /\ phrase_state = "sealed"
    /\ matched.op = "none"
    /\ \E P \in Possibilities, B \in 0..MaxBudget :
          LET r == match_combinations(P, B)
          IN matched' = [op |-> "match_combinations", possibilities |-> P,
                         budget |-> B, ends_in_prefix |-> FALSE,
                         ok |-> r.ok, out |-> r.out]
    /\ UNCHANGED <<phrase_vars, fuzzy_vars, codec_vars, build_vars, inverted_vars,
                   key_vars, reader_vars>>

MatchCombinationsAsWindows ==
    /\ phrase_state = "sealed"
    /\ matched.op = "none"
    /\ \E P \in Possibilities, B \in 0..MaxBudget, eip \in BOOLEAN :
          LET r == match_combinations_as_windows(P, B, eip)
          IN matched' = [op |-> "match_combinations_as_windows", possibilities |-> P,
                         budget |-> B, ends_in_prefix |-> eip,
                         ok |-> r.ok, out |-> r.out]
    /\ UNCHANGED <<phrase_vars, fuzzy_vars, codec_vars, build_vars, inverted_vars,
                   key_vars, reader_vars>>

\* The caller drops the result; the set is ready for the next search.
MatchReturn ==
    /\ matched.op # "none"
    /\ matched' = NoMatch
    /\ UNCHANGED <<phrase_vars, fuzzy_vars, codec_vars, build_vars, inverted_vars,
                   key_vars, reader_vars>>

CombineNext ==
    PhraseInsert \/ IntoInner \/ MatchCombinations \/ MatchCombinationsAsWindows \/ MatchReturn

\* ------------------------------------------------------ keys and phrases
\* The word-ids handed to phrase_to_key, and keys that come from elsewhere.
KeyIds == {0, 1, 258, 65536, WordIdLimit - 1, WordIdLimit + 1}
KeyPhrases == SeqsUpTo(KeyIds, MaxPhraseLen)
RawKeys == SeqsUpTo({0, 255}, 4)

\* The build profiles: overflow checks are on in a debug build.
KeyBuilds == {"debug", "release"}

KeyPanic == [ok |-> FALSE, phrase |-> <<>>]
KeyOk(phrase) == [ok |-> TRUE, phrase |-> phrase]

\* The loop of key_to_phrase; wrapped tells that key.len() - 2 wrapped around
\* in usize and so lies above every i. &key[i..i+3] panics past the end.
RECURSIVE key_to_phrase_loop(_, _, _, _)
key_to_phrase_loop(key, i, phrase, wrapped) ==
    IF wrapped \/ i < Len(key) - 2
    THEN IF i + 3 > Len(key) THEN KeyPanic
         ELSE key_to_phrase_loop(
                  key, i + 3,
                  Append(phrase, three_byte_decode(SubSeq(key, i + 1, i + 3))),
                  wrapped)
    ELSE KeyOk(phrase)

\* key_to_phrase: key.len() - 2 underflows for a key of fewer than two bytes;
\* a debug build panics there, a release build wraps around.
key_to_phrase(key, build) ==
    IF Len(key) < 2
    THEN IF build = "debug" THEN KeyPanic
         ELSE key_to_phrase_loop(key, 0, <<>>, TRUE)
    ELSE key_to_phrase_loop(key, 0, <<>>, FALSE)

KeyIdle ==
    /\ key_phrase = <<>>
    /\ key_given = <<>>
    /\ key_back = KeyOk(<<>>)
    /\ key_pc = "start"

other_than_key ==
    <<fuzzy_vars, phrase_vars, codec_vars, build_vars, inverted_vars, combine_vars,
      reader_vars>>

PhraseToKey ==
    /\ key_pc = "start"
    /\ key_given' = phrase_to_key(key_phrase)
    /\ key_pc' = "keyed"
    /\ UNCHANGED <<key_phrase, key_back>>
    /\ UNCHANGED other_than_key

\* A caller has a key of its own.
GiveKey ==
    /\ key_pc = "start"
    /\ key_phrase = <<>>
    /\ key_given' \in RawKeys
    /\ key_pc' = "given"
    /\ UNCHANGED <<key_phrase, key_back>>
    /\ UNCHANGED other_than_key

KeyToPhrase ==
    /\ key_pc \in {"keyed", "given"}
    /\ \E build \in KeyBuilds : key_back' = key_to_phrase(key_given, build)
    /\ key_pc' = IF key_pc = "keyed" THEN "decoded" ELSE "decoded_given"
    /\ UNCHANGED <<key_phrase, key_given>>
    /\ UNCHANGED other_than_key

KeyNext == PhraseToKey \/ GiveKey \/ KeyToPhrase

\* ---------------------------------------------------------------- readers
\* The threads that query the sealed indexes.
MaxReaders == 2
Readers == 1..MaxReaders

IdleReader == [pc |-> "idle", op |-> "none", query |-> <<>>, result |-> <<>>]

\* No reader is at work.
ReadersIdle ==
    /\ readers = [r \in Readers |-> IdleReader]
    /\ beyond = Panics

\* --------------------------------------------------------- specifications
\* Each part alone; the other parts stay as they are before any call.
BuildIdle ==
    /\ entered = <<>>
    /\ disk = NoFiles

InvertedInit ==
    /\ index = <<>>
    /\ index_entries = <<>>
    /\ inv_calls = <<>>
    /\ inv_state = "building"
    /\ inv_answer = NoInvAnswer

CombineIdle == matched = NoMatch

InitFuzzy ==
    /\ FuzzyInit /\ PhraseInit /\ CodecIdle /\ BuildIdle /\ InvertedInit /\ CombineIdle
    /\ KeyIdle /\ ReadersIdle

SpecFuzzy == InitFuzzy /\ [][FuzzyNext]_vars

InitPhrase ==
    /\ FuzzyInit /\ edit_distance = 1
    /\ PhraseInit /\ CodecIdle /\ BuildIdle /\ InvertedInit /\ CombineIdle
    /\ KeyIdle /\ ReadersIdle

SpecPhrase == InitPhrase /\ [][PhraseNext]_vars

InitCodec ==
    /\ FuzzyInit /\ edit_distance = 1
    /\ PhraseInit /\ CodecInit /\ BuildIdle /\ InvertedInit /\ CombineIdle
    /\ KeyIdle /\ ReadersIdle

SpecCodec == InitCodec /\ [][CodecNext]_vars

\* No FuzzyMapBuilder exists yet and nothing lies under the target path.
InitBuild ==
    /\ edit_distance = 0
    /\ words = <<>>
    /\ word_variants = <<>>
    /\ id_builder = <<>>
    /\ fst = <<>>
    /\ fuzzy_state = "unbuilt"
    /\ looked = NoLookup
    /\ PhraseInit /\ CodecIdle /\ BuildIdle /\ InvertedInit /\ CombineIdle
    /\ KeyIdle /\ ReadersIdle

SpecBuild == InitBuild /\ [][BuildNext]_vars

InitInverted ==
    /\ FuzzyInit /\ edit_distance = 1
    /\ PhraseInit /\ CodecIdle /\ BuildIdle /\ InvertedInit /\ CombineIdle
    /\ KeyIdle /\ ReadersIdle

SpecInverted == InitInverted /\ [][InvertedNext]_vars

InitCombine ==
    /\ FuzzyInit /\ edit_distance = 1
    /\ PhraseInit /\ CodecIdle /\ BuildIdle /\ InvertedInit /\ CombineIdle
    /\ KeyIdle /\ ReadersIdle

SpecCombine == InitCombine /\ [][CombineNext]_vars

InitKey ==
    /\ FuzzyInit /\ edit_distance = 1
    /\ PhraseInit /\ CodecIdle /\ BuildIdle /\ InvertedInit /\ CombineIdle
    /\ ReadersIdle
    /\ key_phrase \in KeyPhrases
    /\ key_given = <<>>
    /\ key_back = KeyOk(<<>>)
    /\ key_pc = "start"

SpecKey == InitKey /\ [][KeyNext]_vars

\* ---------------------------------------------------- reference distance
\* The edit distance of the specification, stated without the dynamic
\* programme: b is within d of a iff at most d single edits (delete a scalar
\* value, insert one, replace one, swap two adjacent ones) lead from a to b.
EditStrings == SeqsUpTo(Chars, MaxWordLen + 1)

Edits1(s) ==
    {DeleteAt(s, i) : i \in 1..Len(s)}
    \cup {[s EXCEPT ![i] = c] : i \in 1..Len(s), c \in Chars}
    \cup {[s EXCEPT ![i] = s[i + 1], ![i + 1] = s[i]] : i \in 1..(Len(s) - 1)}
    \cup (IF Len(s) > MaxWordLen THEN {}
          ELSE {SubSeq(s, 1, i) \o <<c>> \o SubSeq(s, i + 1, Len(s)) :
                    i \in 0..Len(s), c \in Chars})

RECURSIVE EditBall(_, _)
EditBall(S, d) ==
    IF d = 0 THEN S ELSE EditBall(S \cup UNION {Edits1(s) : s \in S}, d - 1)

BallTable == [a \in AllStrings, d \in Distances |-> EditBall({a}, d)]

WithinEdits(a, b, d) == b \in BallTable[a, d]

\* The ids a lookup's probes collected, before verification.
ProbedIds ==
    Dedup(SortNat(collect_matches(
        candidates(looked.query, AscSeq(get_variants(looked.query, looked.d))))))

\* Pair k of the last lookup's result is word i (1-based) with its id.
ResultHas(i) ==
    \E k \in 1..Len(looked.result) : looked.result[k] = <<words[i], i - 1>>

\* ------------------------------------------------------------------ claims
\* C1: FuzzyMap.lookup(query, d, id_to_word) returns only pairs (word, id) with
\* word = id_to_word(id) and Damerau-Levenshtein(query, word) <= d.
C1_LookupPrecision ==
    looked.done =>
        \A k \in 1..Len(looked.result) :
            LET word == looked.result[k][1]
                id   == looked.result[k][2]
            IN /\ id \in 0..(Len(words) - 1)
               /\ word = words[id + 1]
               /\ WithinEdits(looked.query, word, looked.d)

\* A lookup whose probes hit a word farther than d, which verification drops,
\* and that returns a word other than the query.
C1_Witness ==
    /\ looked.done
    /\ Len(ProbedIds) > Len(looked.result)
    /\ \E k \in 1..Len(looked.result) : looked.result[k][1] # looked.query

\* C2: for every vocabulary word w with id i of an index built with distance d
\* and every query q within Damerau-Levenshtein distance d of w,
\* lookup(q, d, id_to_word) contains (w, i).
C2_LookupRecall ==
    (looked.done /\ looked.d = edit_distance) =>
        \A i \in 1..Len(words) :
            WithinEdits(looked.query, words[i], looked.d) => ResultHas(i)

\* A lookup at d = 2 that returns a word at distance exactly 2 which is no
\* deletion variant of the query, nor the query one of its variants.
C2_Witness ==
    /\ looked.done
    /\ looked.d = 2
    /\ edit_distance = 2
    /\ \E i \in 1..Len(words) :
          /\ ResultHas(i)
          /\ ~WithinEdits(looked.query, words[i], 1)
          /\ words[i] \notin get_variants(looked.query, 2)
          /\ looked.query \notin get_variants(words[i], 2)

\* C3: the list returned by FuzzyMap.lookup has strictly ascending ids.
C3_LookupAscending ==
    looked.done =>
        \A k \in 1..(Len(looked.result) - 1) :
            looked.result[k][2] < looked.result[k + 1][2]

\* A lookup returning two words, one id of which was pushed more than once by
\* the probes, one of them through the overflow table.
C3_Witness ==
    /\ looked.done
    /\ Len(looked.result) >= 2
    /\ id_builder # <<>>
    /\ Len(collect_matches(candidates(looked.query,
            AscSeq(get_variants(looked.query, looked.d))))) > Len(ProbedIds)

IdSeqLess(p, q) == LexLess(p, q)

\* The number of accepted phrases that come before p in word-id order.
RankOf(p) == Cardinality({q \in inserted : IdSeqLess(q, p)})

\* C5: for an all-Full phrase, PhraseSet.contains returns Ok(true) iff exactly
\* that word-id sequence was inserted; a proper prefix, a reversal or another
\* reordering of an inserted phrase yields Ok(false) unless inserted itself.
C5_ContainsExact ==
    (answer.op = "contains" /\ ~has_prefix(answer.phrase)) =>
        /\ answer.result \in {"true", "false"}
        /\ answer.result = "true" <=> full_word_ids(answer.phrase) \in inserted

\* contains answers false for the reversal of an inserted two-word phrase whose
\* first word is itself an inserted phrase.
C5_Witness ==
    /\ answer.op = "contains"
    /\ ~has_prefix(answer.phrase)
    /\ answer.result = "false"
    /\ \E p \in inserted :
          /\ Len(p) = 2
          /\ p[1] # p[2]
          /\ full_word_ids(answer.phrase) = <<p[2], p[1]>>
          /\ <<p[1]>> \in inserted

\* C6: PhraseSet.contains returns an error for every phrase whose last word is
\* a Prefix, whatever the set holds.
C6_ContainsPrefixWordErr ==
    (answer.op = "contains" /\ has_prefix(answer.phrase)) => answer.result = "err"

\* contains is given Full words that are an inserted phrase, followed by a
\* Prefix whose range holds the next word of another inserted phrase.
C6_Witness ==
    /\ answer.op = "contains"
    /\ has_prefix(answer.phrase)
    /\ answer.result = "err"
    /\ Len(answer.phrase) = 2
    /\ full_word_ids(answer.phrase) \in inserted
    /\ \E p \in inserted :
          /\ Len(p) = Len(answer.phrase)
          /\ IsPrefix(full_word_ids(answer.phrase), p)
          /\ answer.phrase[Len(answer.phrase)][2] <= p[Len(p)]
          /\ p[Len(p)] <= answer.phrase[Len(answer.phrase)][3]

\* C7: for an all-Full phrase, contains_prefix returns Ok(true) iff the phrase
\* is a prefix (proper or whole) of at least one inserted phrase.
C7_ContainsPrefixFull ==
    (answer.op = "contains_prefix" /\ ~has_prefix(answer.phrase)) =>
        /\ answer.result \in {"true", "false"}
        /\ answer.result = "true" <=>
              \E p \in inserted : IsPrefix(full_word_ids(answer.phrase), p)

\* contains_prefix answers true for a proper prefix that is no phrase of the
\* set.
C7_Witness ==
    /\ answer.op = "contains_prefix"
    /\ ~has_prefix(answer.phrase)
    /\ answer.result = "true"
    /\ full_word_ids(answer.phrase) \notin inserted

\* C8: for k Full ids followed by Prefix(min_id, max_id), contains_prefix
\* returns Ok(true) iff some inserted phrase has more than k words, starts with
\* the k Full ids and has a (k+1)-th word-id w with min_id <= w <= max_id.
C8_ContainsPrefixRange ==
    (answer.op = "contains_prefix" /\ has_prefix(answer.phrase)) =>
        LET full   == full_word_ids(answer.phrase)
            k      == Len(full)
            min_id == answer.phrase[k + 1][2]
            max_id == answer.phrase[k + 1][3]
        IN /\ answer.result \in {"true", "false"}
           /\ answer.result = "true" <=>
                 \E p \in inserted :
                    /\ Len(p) > k
                    /\ SubSeq(p, 1, k) = full
                    /\ min_id <= p[k + 1]
                    /\ p[k + 1] <= max_id

\* A range query after one Full word that is answered true although neither
\* bound is a word of the set, where a smaller next word shares the first
\* byte of min_id and so had to be passed over below it.
C8_Witness ==
    /\ answer.op = "contains_prefix"
    /\ has_prefix(answer.phrase)
    /\ Len(answer.phrase) = 2
    /\ answer.result = "true"
    /\ \A p \in inserted : \A i \in 1..Len(p) :
          p[i] # answer.phrase[2][2] /\ p[i] # answer.phrase[2][3]
    /\ \E p \in inserted :
          /\ Len(p) = 2
          /\ p[1] = answer.phrase[1][2]
          /\ p[2] < answer.phrase[2][2]
          /\ three_byte_encode(p[2])[1] = three_byte_encode(answer.phrase[2][2])[1]

\* C9: three_byte_decode(three_byte_encode(id)) = id for every word-id below
\* 2^24.
C9_CodecRoundTrip ==
    (codec_pc = "decoded" /\ codec_id < WordIdLimit) =>
        /\ Len(codec_bytes) = 3
        /\ codec_back = codec_id

\* A word-id that needs all three bytes went through encode and decode.
C9_Witness ==
    /\ codec_pc = "decoded"
    /\ codec_id < WordIdLimit
    /\ codec_id >= 65536
    /\ codec_id % 256 # 0
    /\ (codec_id \div 256) % 256 # 0

\* The encodings of two word-ids are ordered as the ids are.
EncodeKeepsOrder ==
    \A id1 \in PhraseIds \cup RangeIds, id2 \in PhraseIds \cup RangeIds :
        id1 < id2 => LexLess(three_byte_encode(id1), three_byte_encode(id2))

\* C10: for word-ids below 2^24 the three-byte encoding keeps numeric order,
\* the byte order of two keys is the word-id order of their phrases, and the
\* stream of a PhraseSet yields exactly the keys of the inserted phrases, each
\* three bytes a word, in ascending word-id-sequence order.
C10_KeyOrder ==
    /\ EncodeKeepsOrder
    /\ answer.op = "stream" =>
          /\ \A p \in inserted, q \in inserted :
                LexLess(word_ids_to_key(p), word_ids_to_key(q)) <=> IdSeqLess(p, q)
          /\ Len(answer.keys) = Cardinality(inserted)
          /\ \A p \in inserted :
                /\ answer.keys[RankOf(p) + 1] = word_ids_to_key(p)
                /\ Len(answer.keys[RankOf(p) + 1]) = 3 * Len(p)

\* A stream of three keys of two lengths, one phrase a prefix of another and
\* two that differ in the low byte of one word and the high byte of the other.
C10_Witness ==
    /\ answer.op = "stream"
    /\ Len(answer.keys) = 3
    /\ \E p \in inserted, q \in inserted : p # q /\ IsPrefix(p, q)
    /\ \E p \in inserted, q \in inserted :
          /\ Len(p) = Len(q)
          /\ \E i \in 1..Len(p) : p[i] < 256 /\ q[i] >= 65536

\* The keys the build emits for a word: the word itself and its variants.
KeysOf(word) == {word} \cup get_variants(word, edit_distance)

\* The ids an FST output stands for: itself below BIG_NUMBER, the overflow
\* vector it points to otherwise (none when it points past the table).
ResolvedIds(out) ==
    IF out < BIG_NUMBER THEN {out}
    ELSE LET t == out - BIG_NUMBER + 1
         IN IF t \in 1..Len(id_builder)
            THEN {id_builder[t][k] : k \in 1..Len(id_builder[t])}
            ELSE {}

\* C11: after FuzzyMapBuilder.finish, for every inserted word w with id i and
\* every key v among w and its variants, the FST holds exactly one entry for
\* v, and the ids that entry resolves to (the direct id or the overflow vector)
\* contain i and contain only ids of words that have v as themselves or as a
\* variant.
C11_KeyEntries ==
    fuzzy_state = "sealed" =>
        \A i \in 1..Len(words) : \A v \in KeysOf(words[i]) :
            /\ Cardinality({k \in 1..Len(fst) : fst[k][1] = v}) = 1
            /\ (i - 1) \in ResolvedIds(fst_get(v))
            /\ \A j \in ResolvedIds(fst_get(v)) :
                  /\ j \in 0..(Len(words) - 1)
                  /\ v \in KeysOf(words[j + 1])

\* A sealed index of two different words that share a variant, stored through
\* the overflow table, next to a key that belongs to one of them alone.
C11_Witness ==
    /\ fuzzy_state = "sealed"
    /\ Len(words) = 2
    /\ words[1] # words[2]
    /\ \E v \in KeysOf(words[1]) \cap KeysOf(words[2]) :
          fst_get(v) >= BIG_NUMBER /\ ResolvedIds(fst_get(v)) = {0, 1}
    /\ \E v \in KeysOf(words[1]) \ KeysOf(words[2]) : fst_get(v) = 0

\* The ids that were entered with a word that has key among its keys.
EnteredIdsOf(key) ==
    {entered[n][2] : n \in {m \in 1..Len(entered) : key \in KeysOf(entered[m][1])}}

\* C12: a FuzzyMap build fails whenever a word-id of BIG_NUMBER or more is
\* inserted or the overflow table would reach BIG_NUMBER entries; so in every
\* index that was built, the output of a key with a single id is that id and
\* lies below BIG_NUMBER, and every output of BIG_NUMBER or more is a valid
\* index into the overflow table.
C12_BuildChecksBounds ==
    fuzzy_state = "sealed" =>
        /\ \A n \in 1..Len(entered) : entered[n][2] < BIG_NUMBER
        /\ Len(id_builder) < BIG_NUMBER
        /\ \A k \in 1..Len(fst) :
              IF Cardinality(EnteredIdsOf(fst[k][1])) = 1
              THEN fst[k][2] < BIG_NUMBER
              ELSE /\ fst[k][2] >= BIG_NUMBER
                   /\ fst[k][2] - BIG_NUMBER < Len(id_builder)

\* C13: when a FuzzyMap build fails at any step (new, a key insertion inside
\* finish, creating or writing the .msg file, finalizing the FST), neither
\* <stem>.fst nor <stem>.msg is left at the target path.
C13_NoPartialFiles ==
    fuzzy_state = "failed" => disk = NoFiles

\* The phrase-ids handed to InvertedIndexBuilder::insert, the word-ids a
\* phrase-id was inserted with, and the phrase-ids inserted with a word-id.
IndexedPhraseIds == {inv_calls[n][1] : n \in 1..Len(inv_calls)}

WordsOfPhrase(pid) ==
    UNION {{inv_calls[n][2][k] : k \in 1..Len(inv_calls[n][2])} :
              n \in {m \in 1..Len(inv_calls) : inv_calls[m][1] = pid}}

PhrasesWith(w) == {pid \in IndexedPhraseIds : w \in WordsOfPhrase(pid)}

InsertedWords == UNION {WordsOfPhrase(pid) : pid \in IndexedPhraseIds}

\* C14: InvertedIndex.contains(phrase) returns Ok(true) iff at least one
\* indexed phrase-id has every word-id of the query among its words, whatever
\* their order or adjacency; so it returns true for every inserted phrase.
C14_ContainsAllWords ==
    (/\ inv_answer.op = "contains"
     /\ \A k \in 1..Len(inv_answer.phrase) : inv_answer.phrase[k][1] = "Full") =>
        (inv_answer.result = "true" <=>
            \E pid \in IndexedPhraseIds :
                \A k \in 1..Len(inv_answer.phrase) :
                    inv_answer.phrase[k][2] \in WordsOfPhrase(pid))

\* C15: after InvertedIndexBuilder.into_inner the entries array has length
\* (largest inserted word-id + 1), or 0 when nothing was inserted; entry
\* number w describes word-id w; and every word-id below the largest that was
\* never inserted has count 0 and empty compressed_ids.
C15_EntriesDense ==
    inv_state = "sealed" =>
        /\ Len(index_entries) =
              IF InsertedWords = {} THEN 0
              ELSE (CHOOSE w \in InsertedWords : \A x \in InsertedWords : x <= w) + 1
        /\ \A w \in 0..(Len(index_entries) - 1) :
              LET entry == index_entries[w + 1]
              IN /\ entry.count = Cardinality(PhrasesWith(w))
                 /\ streamvbyte_delta_decode(entry.compressed_ids, entry.count, 0)
                        = AscNat(PhrasesWith(w))
                 /\ w \notin InsertedWords =>
                        entry.count = 0 /\ entry.compressed_ids = <<>>

\* A sealed index whose words leave a gap before the first and between two
\* inserted word-ids.
C15_Witness ==
    /\ inv_state = "sealed"
    /\ InsertedWords = {1, 3}
    /\ Len(index_entries) = 4
    /\ index_entries[2].count > 0

\* C16: for every inserted word-id w the posting list the builder stores, and
\* phrases_for_word(w) returns, is the strictly ascending list of the distinct
\* phrase-ids inserted with w, and count is its length, whatever the order of
\* the insert calls and however often a (phrase-id, word) pair was inserted.
C16_PostingLists ==
    (inv_answer.op = "phrases_for_word" /\ inv_answer.word_id \in InsertedWords) =>
        /\ inv_answer.result = "ok"
        /\ inv_answer.ids = AscNat(PhrasesWith(inv_answer.word_id))
        /\ \A k \in 1..(Len(inv_answer.ids) - 1) :
              inv_answer.ids[k] < inv_answer.ids[k + 1]
        /\ index_entries[inv_answer.word_id + 1].count = Len(inv_answer.ids)

\* The posting list of a word that was inserted twice with one phrase-id and
\* then with a smaller phrase-id, the two more than one byte apart.
C16_Witness ==
    /\ inv_answer.op = "phrases_for_word"
    /\ inv_answer.word_id \in InsertedWords
    /\ Len(index[inv_answer.word_id]) = 3
    /\ index[inv_answer.word_id][1] > index[inv_answer.word_id][3]
    /\ inv_answer.ids = <<0, 300>>

\* The word-ids of a sequence of Full words, and the sum of their edit
\* distances.
IdsOf(ws) == [k \in 1..Len(ws) |-> ws[k][2]]

RECURSIVE SumDist(_)
SumDist(ws) == IF ws = <<>> THEN 0 ELSE Head(ws)[3] + SumDist(Tail(ws))

\* The candidates of a list, and the ways to pick one candidate a position.
Candidates(list) == {list[c] : c \in 1..Len(list)}

Picks(P) ==
    {pick \in [1..Len(P) -> UNION {Candidates(P[i]) : i \in 1..Len(P)}] :
        \A i \in 1..Len(P) : pick[i] \in Candidates(P[i])}

\* Every candidate is a Full word and every list is in non-decreasing order
\* of edit distance.
AllFullSorted(P) ==
    \A i \in 1..Len(P) :
        /\ \A c \in 1..Len(P[i]) : P[i][c][1] = "Full"
        /\ \A c \in 1..(Len(P[i]) - 1) : P[i][c][3] <= P[i][c + 1][3]

\* C17: every result of PhraseSet.match_combinations(P, B) is a complete
\* phrase of the set whose word at each position i is one of the candidates
\* P[i] and whose edit distances sum to at most B.
C17_CombinationsSound ==
    (matched.op = "match_combinations" /\ matched.ok) =>
        \A r \in 1..Len(matched.out) :
            LET phrase == matched.out[r]
            IN /\ Len(phrase) = Len(matched.possibilities)
               /\ \A i \in 1..Len(phrase) :
                     /\ phrase[i][1] = "Full"
                     /\ phrase[i] \in Candidates(matched.possibilities[i])
               /\ IdsOf(phrase) \in inserted
               /\ SumDist(phrase) <= matched.budget

\* A search over two positions that returns a phrase which uses up the whole
\* budget and whose first word alone is no phrase, and leaves out a pick
\* within the budget that is no phrase of the set.
C17_Witness ==
    /\ matched.op = "match_combinations"
    /\ matched.ok
    /\ matched.budget = 1
    /\ \E r \in 1..Len(matched.out) :
          /\ Len(matched.out[r]) = 2
          /\ SumDist(matched.out[r]) = 1
          /\ <<matched.out[r][1][2]>> \notin inserted
    /\ \E pick \in Picks(matched.possibilities) :
          /\ \A i \in 1..Len(pick) : pick[i][1] = "Full"
          /\ SumDist(pick) <= matched.budget
          /\ IdsOf(pick) \notin inserted

MeetsPrefix(P, B) ==
    \E i \in 1..Len(P) : \E c \in 1..Len(P[i]) :
        /\ P[i][c][1] = "Prefix"
        /\ \E pick \in Picks(SubSeq(P, 1, i - 1)) :
              /\ \A j \in 1..(i - 1) : pick[j][1] = "Full"
              /\ i = 1 \/ \E p \in inserted : IsPrefix(IdsOf(pick), p)
              /\ \A j \in 1..i :
                    LET left == B - SumDist(SubSeq(pick, 1, j - 1))
                        upto == IF j = i THEN c - 1
                                ELSE CHOOSE n \in 1..Len(P[j]) : P[j][n] = pick[j]
                    IN \A n \in 1..upto : P[j][n][1] = "Full" /\ P[j][n][3] <= left

WindowIsPrefixOf(window, p) ==
    /\ Len(window) <= Len(p)
    /\ \A k \in 1..Len(window) :
          IF window[k][1] = "Full" THEN p[k] = window[k][2]
          ELSE window[k][2] <= p[k] /\ p[k] <= window[k][3]

\* C20: every window match_combinations_as_windows emits with tag false is a
\* complete phrase of the set, and every window it emits with tag true is a
\* prefix of, or equal to, a phrase of the set.
C20_WindowTags ==
    (matched.op = "match_combinations_as_windows" /\ matched.ok) =>
        \A r \in 1..Len(matched.out) :
            LET window == matched.out[r][1]
                tag    == matched.out[r][2]
            IN IF tag
               THEN \E p \in inserted : WindowIsPrefixOf(window, p)
               ELSE /\ \A k \in 1..Len(window) : window[k][1] = "Full"
                    /\ IdsOf(window) \in inserted

\* A search that emits a shorter window with tag false and a longer one, ending
\* in a Prefix, with tag true, and passes a node where no phrase ends.
C20_Witness ==
    /\ matched.op = "match_combinations_as_windows"
    /\ matched.ok
    /\ \E r1 \in 1..Len(matched.out), r2 \in 1..Len(matched.out) :
          /\ ~matched.out[r1][2]
          /\ matched.out[r2][2]
          /\ Len(matched.out[r1][1]) < Len(matched.out[r2][1])
          /\ matched.out[r2][1][Len(matched.out[r2][1])][1] = "Prefix"
    /\ \E p \in inserted : Len(p) = 2 /\ <<p[1]>> \notin inserted

\* The ids of the words that emit key, the keys the build emits, and those
\* emitted for two or more ids.
IdsEmitting(key) == {i \in 0..(Len(words) - 1) : key \in KeysOf(words[i + 1])}

EmittedKeys == UNION {KeysOf(words[i]) : i \in 1..Len(words)}

SharedKeys == {key \in EmittedKeys : Cardinality(IdsEmitting(key)) >= 2}

\* The number of shared keys that sort before key.
OverflowRank(key) == Cardinality({k \in SharedKeys : LexLess(k, key)})

\* C23: finish stores a key whose group holds exactly one distinct id with
\* that id as its FST output, and a key with two or more distinct ids with
\* output BIG_NUMBER + j, where j is the index of the overflow vector that
\* holds exactly that key's ids; overflow indices are given out 0, 1, 2, ... in
\* ascending key order, and lookup resolves an output o >= BIG_NUMBER to
\* overflow[o - BIG_NUMBER].
C23_DirectOrOverflow ==
    /\ fuzzy_state = "sealed" =>
          /\ Len(id_builder) = Cardinality(SharedKeys)
          /\ \A key \in EmittedKeys :
                IF Cardinality(IdsEmitting(key)) = 1
                THEN {fst_get(key)} = IdsEmitting(key)
                ELSE LET j == OverflowRank(key)
                     IN /\ fst_get(key) = BIG_NUMBER + j
                        /\ {id_builder[j + 1][n] : n \in 1..Len(id_builder[j + 1])}
                              = IdsEmitting(key)
    /\ looked.done =>
          LET cands == {looked.query} \cup get_variants(looked.query, looked.d)
              found == UNION {ResolvedIds(fst_get(c)) :
                                 c \in {x \in cands : fst_get(x) # -1}}
          IN {looked.result[n][2] : n \in 1..Len(looked.result)}
                = {i \in found :
                      damerau_levenshtein(looked.query, lookup_fn(i)) <= looked.d}

\* A sealed map with a direct key and two overflow vectors, and a lookup whose
\* query is the key of the second vector and returns both of its ids.
C23_Witness ==
    /\ fuzzy_state = "sealed"
    /\ Len(id_builder) >= 2
    /\ \E key \in EmittedKeys : fst_get(key) < BIG_NUMBER
    /\ looked.done
    /\ fst_get(looked.query) = BIG_NUMBER + 1
    /\ Len(looked.result) = 2

\* The keys entered through insert, with their variants, and those among them
\* entered for two or more ids, ascending.
EnteredKeys == UNION {KeysOf(entered[n][1]) : n \in 1..Len(entered)}

EnteredSharedKeys ==
    AscSeq({key \in EnteredKeys : Cardinality(EnteredIdsOf(key)) >= 2})

\* The first insert call that emitted key for id.
FirstEmitted(key, id) ==
    LET calls == {n \in 1..Len(entered) :
                     entered[n][2] = id /\ key \in KeysOf(entered[n][1])}
    IN CHOOSE n \in calls : \A m \in calls : n <= m

\* C24: every overflow vector the build writes is non-empty, holds no id
\* twice, and lists its ids in the order in which insert calls emitted them,
\* for any sequence of insert(key, id) calls, ids in non-ascending order
\* included.
C24_OverflowInsertionOrder ==
    fuzzy_state = "sealed" =>
        /\ Len(id_builder) = Len(EnteredSharedKeys)
        /\ \A t \in 1..Len(id_builder) :
              LET ids == id_builder[t]
                  key == EnteredSharedKeys[t]
              IN /\ ids # <<>>
                 /\ \A a \in 1..Len(ids), b \in 1..Len(ids) : a # b => ids[a] # ids[b]
                 /\ \A a \in 1..Len(ids), b \in 1..Len(ids) :
                       a < b => FirstEmitted(key, ids[a]) < FirstEmitted(key, ids[b])

\* C29: finish hands the keys to the FST builder in strictly increasing byte
\* order and each distinct key exactly once, for any sequence of insert(key,
\* id) calls (repeated words, repeated pairs, variants shared by several
\* words), so the FST builder refuses no key as duplicate or out of order.
C29_KeysHandedInOrder ==
    /\ fuzzy_state = "building" => finish(word_variants).ok
    /\ fuzzy_state = "sealed" =>
          /\ \A k \in 1..(Len(fst) - 1) : LexLess(fst[k][1], fst[k + 1][1])
          /\ {fst[k][1] : k \in 1..Len(fst)} = EnteredKeys

\* A build that was handed the same (key, id) pair twice, and one whose two
\* words share a variant, both sealed with three keys or more.
C29_Witness ==
    /\ fuzzy_state = "sealed"
    /\ Len(entered) = 2
    /\ Len(fst) >= 3
    /\ \/ entered[1] = entered[2]
       \/ /\ entered[1][1] # entered[2][1]
          /\ entered[2][2] < entered[1][2]
          /\ KeysOf(entered[1][1]) \cap KeysOf(entered[2][1]) # {}

\* The pairs insert pushes for the words from the i-th on when every variant
\* set is yielded in ascending order.
RECURSIVE AscendingPairs(_)
AscendingPairs(i) ==
    IF i > Len(words) THEN <<>>
    ELSE LET vs == AscSeq(get_variants(words[i], edit_distance))
         IN <<<<words[i], i - 1>>>> \o [k \in 1..Len(vs) |-> <<vs[k], i - 1>>]
            \o AscendingPairs(i + 1)

\* C30: the FuzzyMap built from a sequence of insert(word, id) calls (the
\* key-to-output mapping and the overflow table) and the result of every
\* lookup are the same whatever order the variant generator yields the
\* elements of its variant set in.
C30_VariantOrderUnseen ==
    /\ fuzzy_state = "sealed" =>
          LET r == finish(AscendingPairs(1))
          IN r.ok /\ fst = r.fst /\ id_builder = r.id_list
    /\ looked.done =>
          \A vs \in VariantOrders(get_variants(looked.query, looked.d)) :
              looked.result = lookup(looked.query, looked.d, vs)

\* A map of two words with several variants each, and a lookup whose query has
\* several variants and finds both words through different candidate keys.
C30_Witness ==
    /\ fuzzy_state = "sealed"
    /\ \A i \in 1..Len(words) : Cardinality(get_variants(words[i], edit_distance)) >= 2
    /\ Len(id_builder) >= 1
    /\ looked.done
    /\ Cardinality(get_variants(looked.query, looked.d)) >= 2
    /\ Len(looked.result) = 2
    /\ fst_get(looked.query) = -1

\* The three-byte paths that leave the node at addr.
PathsFrom(addr) ==
    {SubSeq(k, Len(addr) + 1, Len(addr) + 3) :
        k \in {x \in set_keys : Len(x) >= Len(addr) + 3 /\ IsPrefix(addr, x)}}

\* The path the descent of the pending contains_prefix query returns.
AnswerFirstPath ==
    LET min_key == prefix_key_range(answer.phrase)[1]
        addr    == full_word_key(answer.phrase)
    IN find_first_after(skip_while(transitions(addr), min_key[1]), min_key, TRUE, 0)

\* C25: the prefix-range descent find_first_after, started at the node reached
\* after the Full words, returns the smallest three-byte path leaving that
\* node that is not below min_key, or nothing when there is no such path; the
\* lower bound on the next byte holds only while every byte chosen so far
\* equals the byte of min_key, and is dropped for all deeper levels once a
\* chosen byte is greater.
C25_FirstPathAfter ==
    (/\ answer.op = "contains_prefix"
     /\ has_prefix(answer.phrase)
     /\ partial_search(<<>>, full_word_key(answer.phrase)).found) =>
        LET min_key == prefix_key_range(answer.phrase)[1]
            after   == {path \in PathsFrom(full_word_key(answer.phrase)) :
                           LexLeq(min_key, path)}
        IN IF after = {} THEN AnswerFirstPath = <<>>
           ELSE /\ AnswerFirstPath \in after
                /\ \A path \in after : LexLeq(AnswerFirstPath, path)

\* A range query whose descent passes below a path that ties with min_key in
\* its first byte and is smaller, and returns a path with a greater second
\* byte and a third byte below that of min_key.
C25_Witness ==
    /\ answer.op = "contains_prefix"
    /\ has_prefix(answer.phrase)
    /\ partial_search(<<>>, full_word_key(answer.phrase)).found
    /\ LET min_key == prefix_key_range(answer.phrase)[1]
       IN /\ AnswerFirstPath # <<>>
          /\ AnswerFirstPath[1] = min_key[1]
          /\ AnswerFirstPath[2] > min_key[2]
          /\ AnswerFirstPath[3] < min_key[3]
          /\ \E path \in PathsFrom(full_word_key(answer.phrase)) :
                path[1] = min_key[1] /\ LexLess(path, min_key)

\* C28 as stated: for every QueryPhrase that ends in Prefix(min_id, max_id),
\* range returns the same boolean as contains_prefix, also when the only
\* matching phrases go on with further words after a word equal to max_id.
C28_RangeIsContainsPrefix ==
    (answer.op = "range" /\ has_prefix(answer.phrase)) =>
        answer.result = contains_prefix(answer.phrase)

\* The phrases that start with the Full words of the query and go on with a
\* word in the Prefix's range.
RangeMatches(phrase) ==
    LET full == full_word_ids(phrase)
        k    == Len(full)
    IN {p \in inserted : /\ Len(p) > k
                         /\ SubSeq(p, 1, k) = full
                         /\ phrase[k + 1][2] <= p[k + 1]
                         /\ p[k + 1] <= phrase[k + 1][3]}

\* C28 as amended: range returns true iff a key of the set lies between the
\* keys of the Full words followed by min_id and by max_id, both included; so
\* it returns the same boolean as contains_prefix unless every matching phrase
\* goes on with further words after a word equal to max_id, and then range
\* returns false where contains_prefix returns true.
C28_RangeByKeyBounds ==
    (answer.op = "range" /\ has_prefix(answer.phrase)) =>
        LET k       == Len(full_word_ids(answer.phrase))
            max_id  == answer.phrase[k + 1][3]
            past_max  == {p \in RangeMatches(answer.phrase) :
                           p[k + 1] = max_id /\ Len(p) > k + 1}
        IN /\ answer.result = "true" <=> RangeMatches(answer.phrase) \ past_max # {}
           /\ RangeMatches(answer.phrase) \ past_max # {} =>
                 answer.result = contains_prefix(answer.phrase)
           /\ (RangeMatches(answer.phrase) # {} /\ RangeMatches(answer.phrase) \subseteq past_max) =>
                 answer.result = "false" /\ contains_prefix(answer.phrase) = "true"

\* A range query that is answered false although a phrase of the set starts
\* with a word of the range: that word is max_id and the phrase goes on.
C28_Witness ==
    /\ answer.op = "range"
    /\ has_prefix(answer.phrase)
    /\ answer.result = "false"
    /\ RangeMatches(answer.phrase) # {}
    /\ answer.phrase[Len(answer.phrase)][2] < answer.phrase[Len(answer.phrase)][3]

\* C22: InvertedIndex.contains_prefix(phrase) returns Ok(true) iff the query
\* phrase is found at the beginning of some indexed phrase, and Ok(false)
\* otherwise.
C22_InvContainsPrefixStartsWith ==
    (inv_answer.op = "contains_prefix" /\ ~has_prefix(inv_answer.phrase)) =>
        /\ inv_answer.result \in {"true", "false"}
        /\ inv_answer.result = "true" <=>
              \E n \in 1..Len(inv_calls) :
                  IsPrefix(full_word_ids(inv_answer.phrase), inv_calls[n][2])

\* C26: three_byte_encode(id) is the big-endian encoding of the three
\* least-significant bytes of id, for ids of more than 24 bits too; so
\* three_byte_decode(three_byte_encode(id)) = id mod 2^24, and two ids that
\* differ by a multiple of 2^24 have the same three-byte key segment.
C26_ThreeLowBytes ==
    /\ codec_pc \in {"encoded", "decoded"} =>
          /\ codec_bytes = <<(codec_id \div 65536) % 256, (codec_id \div 256) % 256,
                             codec_id % 256>>
          /\ \A id \in CodecIds :
                (id % WordIdLimit = codec_id % WordIdLimit)
                    => three_byte_encode(id) = codec_bytes
    /\ codec_pc = "decoded" => codec_back = codec_id % WordIdLimit

\* A word-id of more than 24 bits went through encode and decode, came back
\* as another, non-zero word-id, and that word-id has the same encoding.
C26_Witness ==
    /\ codec_pc = "decoded"
    /\ codec_id >= WordIdLimit
    /\ codec_back # codec_id
    /\ codec_back >= 256
    /\ codec_back \in CodecIds
    /\ three_byte_encode(codec_back) = codec_bytes

\* C27: key_to_phrase(phrase_to_key(p)) = p for every sequence p of word-ids
\* below 2^24, the empty sequence included, and phrase_to_key(p) has length
\* 3 * |p|; key_to_phrase completes without failure on every key it is given.
C27_KeyRoundTrip ==
    /\ key_pc \in {"keyed", "decoded"} => Len(key_given) = 3 * Len(key_phrase)
    /\ (key_pc = "decoded" /\ \A i \in 1..Len(key_phrase) : key_phrase[i] < WordIdLimit) =>
          key_back = KeyOk(key_phrase)
    /\ key_pc \in {"decoded", "decoded_given"} => key_back.ok

\* ------------------------------------------ readers of the sealed indexes
\* Sealed indexes shared by several readers.  A query has no suspension point,
\* but the queries of different readers overlap: a reader calls, the query
\* runs at some later step, and the reader leaves with the result.

\* The word lists, phrase sets and insert calls the shared indexes are built
\* from.
ReaderWordLists == {<<<<1, 2>>, <<1, 3>>>>, <<<<1, 2, 3>>, <<2, 3>>>>}
ReaderPhraseSets == {{<<1>>, <<1, 256>>}, {<<258, 1>>, <<65536>>}}
ReaderIndexCalls == {<<<<0, <<0, 1>>>>, <<1, <<1>>>>>>, <<<<300, <<3>>>>>>}

\* The queries the readers issue; some of them return an error or panic.
ReaderQueries ==
    {[op |-> "lookup", query |-> <<w, d>>] :
        w \in {<<1>>, <<1, 2>>, <<3, 3>>}, d \in Distances}
    \cup {[op |-> o, query |-> ph] :
            o \in {"contains", "contains_prefix"},
            ph \in {<<Full(1)>>, <<Full(1), Full(256)>>, <<Full(258), Prefix(0, 2)>>}}
    \cup {[op |-> "range", query |-> ph] :
            ph \in {<<Prefix(0, 258)>>, <<Full(1), Prefix(0, 257)>>}}
    \cup {[op |-> o, query |-> ph] :
            o \in {"inv_contains", "match_substring"},
            ph \in {<<Full(0), Full(1)>>, <<Full(4)>>, <<Full(0), Prefix(0, 1)>>}}

\* The builder's map after the insert calls from the n-th on.
RECURSIVE index_of_calls(_, _, _)
index_of_calls(calls, n, idx) ==
    IF n > Len(calls) THEN idx
    ELSE index_of_calls(calls, n + 1, index_insert(idx, calls[n][1], calls[n][2]))

other_than_readers ==
    <<fuzzy_vars, phrase_vars, codec_vars, build_vars, inverted_vars, combine_vars,
      key_vars>>

\* The three indexes are built and sealed; no reader has called yet.
InitReaders ==
    /\ edit_distance \in Distances
    /\ words \in ReaderWordLists
    /\ word_variants = <<>>
    /\ id_builder = finish(AscendingPairs(1)).id_list
    /\ fst = finish(AscendingPairs(1)).fst
    /\ fuzzy_state = "sealed"
    /\ looked = NoLookup
    /\ inserted \in ReaderPhraseSets
    /\ set_keys = {word_ids_to_key(p) : p \in inserted}
    /\ builder_last = AscSeq(set_keys)[Cardinality(set_keys)]
    /\ insert_err = FALSE
    /\ phrase_state = "sealed"
    /\ answer = NoAnswer
    /\ inv_calls \in ReaderIndexCalls
    /\ index = index_of_calls(inv_calls, 1, <<>>)
    /\ index_entries = inverted_into_inner(index)
    /\ inv_state = "sealed"
    /\ inv_answer = NoInvAnswer
    /\ beyond \in WildReads
    /\ readers = [r \in Readers |-> IdleReader]
    /\ CodecIdle /\ BuildIdle /\ CombineIdle /\ KeyIdle

\* Reader r leaves with result.
Done(r, result) ==
    /\ readers' = [readers EXCEPT ![r].pc = "done", ![r].result = result]
    /\ UNCHANGED beyond
    /\ UNCHANGED other_than_readers

\* A reader calls one of the query operations.
ReaderCall ==
    /\ \E r \in Readers, q \in ReaderQueries :
          /\ readers[r].pc = "idle"
          /\ readers' = [readers EXCEPT ![r] = [pc |-> "called", op |-> q.op,
                                                query |-> q.query, result |-> <<>>]]
    /\ UNCHANGED beyond
    /\ UNCHANGED other_than_readers

\* FuzzyMap::lookup(&self, ..) on behalf of a reader.
ReadLookup ==
    \E r \in Readers :
        /\ readers[r].pc = "called" /\ readers[r].op = "lookup"
        /\ \E vs \in VariantOrders(get_variants(readers[r].query[1], readers[r].query[2])) :
              Done(r, lookup(readers[r].query[1], readers[r].query[2], vs))

\* A slip: a query that returned an error leaves the set without keys.
ReadContainsPoisoning ==
    \E r \in Readers :
        /\ readers[r].pc = "called" /\ readers[r].op = "contains"
        /\ readers' = [readers EXCEPT ![r].pc = "done",
                                      ![r].result = contains(readers[r].query)]
        /\ set_keys' = IF contains(readers[r].query) = "err" THEN {} ELSE set_keys
        /\ UNCHANGED <<builder_last, inserted, insert_err, phrase_state, answer, beyond>>
        /\ UNCHANGED <<fuzzy_vars, codec_vars, build_vars, inverted_vars, combine_vars,
                       key_vars>>

\* PhraseSet::contains(&self, ..) on behalf of a reader.
ReadContains ==
    \E r \in Readers :
        /\ readers[r].pc = "called" /\ readers[r].op = "contains"
        /\ Done(r, contains(readers[r].query))

\* PhraseSet::contains_prefix(&self, ..).
ReadContainsPrefix ==
    \E r \in Readers :
        /\ readers[r].pc = "called" /\ readers[r].op = "contains_prefix"
        /\ Done(r, contains_prefix(readers[r].query))

\* PhraseSet::range(&self, ..).
ReadRange ==
    \E r \in Readers :
        /\ readers[r].pc = "called" /\ readers[r].op = "range"
        /\ Done(r, range(readers[r].query))

\* InvertedIndex::contains(&self, ..); a read past the end of the entries
\* vector finds what the index's buffer holds there, the same at every read.
ReadInvContains ==
    \E r \in Readers :
        /\ readers[r].pc = "called" /\ readers[r].op = "inv_contains"
        /\ Done(r, inverted_contains(readers[r].query, beyond))

\* InvertedIndex::match_substring(&self, ..).
ReadMatchSubstring ==
    \E r \in Readers :
        /\ readers[r].pc = "called" /\ readers[r].op = "match_substring"
        /\ Done(r, match_substring(readers[r].query, beyond))

\* The reader drops the result (or its thread has unwound after a panic).
ReaderLeave ==
    /\ \E r \in Readers :
          /\ readers[r].pc = "done"
          /\ readers' = [readers EXCEPT ![r] = IdleReader]
    /\ UNCHANGED beyond
    /\ UNCHANGED other_than_readers

ReadersNext ==
    ReaderCall \/ ReadLookup \/ ReadContains \/ ReadContainsPrefix \/ ReadRange
        \/ ReadInvContains \/ ReadMatchSubstring \/ ReaderLeave

SpecReaders == InitReaders /\ [][ReadersNext]_vars

\* What the query of a reader returns on the indexes as they are.
ResultNow(reader) ==
    CASE reader.op = "lookup" ->
            lookup(reader.query[1], reader.query[2],
                   AscSeq(get_variants(reader.query[1], reader.query[2])))
      [] reader.op = "contains" -> contains(reader.query)
      [] reader.op = "contains_prefix" -> contains_prefix(reader.query)
      [] reader.op = "range" -> range(reader.query)
      [] reader.op = "inv_contains" -> inverted_contains(reader.query, beyond)
      [] reader.op = "match_substring" -> match_substring(reader.query, beyond)

\* The indexes are what the builders wrote from their inputs.
IndexesAsBuilt ==
    /\ fuzzy_state = "sealed" /\ phrase_state = "sealed" /\ inv_state = "sealed"
    /\ fst = finish(AscendingPairs(1)).fst
    /\ id_builder = finish(AscendingPairs(1)).id_list
    /\ set_keys = {word_ids_to_key(p) : p \in inserted}
    /\ index_entries = inverted_into_inner(index_of_calls(inv_calls, 1, <<>>))

====
